---- MODULE Spec2Model ----
(***************************************************************************)
(* State-machine model of PeridigmNS::ContactManager                       *)
(* (src/src/core/Peridigm_ContactManager.cpp): the rebalance cycle, the    *)
(* migration of the bond topology, the contact search, the construction of *)
(* the two Neighborhood Tables and the movement of the mothership data.    *)
(*                                                                         *)
(* Conventions.                                                            *)
(*  - An Epetra_BlockMap of one rank is a record                           *)
(*      [MyGlobalElements |-> <<gid, ...>>, ElementSizeList |-> <<n, ...>>]*)
(*    Local IDs (slots) are 0-based as in the code and -1 is the "not      *)
(*    present" sentinel of Epetra_BlockMap::LID; sequences are 1-based, so *)
(*    slot i is element i+1 of a sequence.                                 *)
(*  - An Epetra_Vector is the sequence of its entries.  A vector on a      *)
(*    three-dimensional map keeps one abstract value per point (the        *)
(*    triple); a vector on a bond map keeps one entry per bond.            *)
(*  - A distributed object is a function from Ranks to its local part.     *)
(***************************************************************************)
EXTENDS Integers, Sequences, FiniteSets, TLC

\* ---------------------------------------------------------------- bounds

\* Number of simulation points; global IDs are 1..NumPoints.
NumPoints == 3

\* Steps the time-stepping driver takes; rebalance(step) is called for 1..MaxStep.
MaxStep == 4

\* Largest value an out-of-range read of a bond map's ElementSizeList yields.
MaxGarbage == 1

\* Largest cell index of a coordinate; a point sits at twice its cell index.
MaxCell == 1

\* Largest force density a contact block holds for a point of its layout.
MaxForce == 1

\* ------------------------------------------------------- configuration

\* "Search Frequency" as read by the constructor.
contactRebalanceFrequency == 2

\* "Search Radius" as read by the constructor.
contactSearchRadius == 1

Ranks == {1, 2}

GIDs == 1..NumPoints

\* The value an Epetra_BlockMap::LID returns for an ID the map does not hold.
NotPresent == -1

\* ---------------------------------------------------- sequence helpers

Range(s) == {s[i] : i \in DOMAIN s}

RECURSIVE SumSeq(_)
SumSeq(s) == IF s = <<>> THEN 0 ELSE s[1] + SumSeq(Tail(s))

RECURSIVE Flatten(_)
Flatten(ss) == IF ss = <<>> THEN <<>> ELSE ss[1] \o Flatten(Tail(ss))

\* The elements of a finite set of integers in ascending order (the iteration
\* order of std::set<int>).
RECURSIVE SortedSeq(_)
SortedSeq(S) ==
  IF S = {} THEN <<>>
  ELSE LET m == CHOOSE x \in S : \A y \in S : x <= y
       IN  <<m>> \o SortedSeq(S \ {m})

SelectIdx(s, keep) ==
  LET F[i \in 0..Len(s)] ==
        IF i = 0 THEN <<>>
        ELSE IF keep[i] THEN Append(F[i-1], s[i]) ELSE F[i-1]
  IN  F[Len(s)]

\* ------------------------------------------------------ Epetra_BlockMap

BlockMap(gids, sizes) == [MyGlobalElements |-> gids, ElementSizeList |-> sizes]

\* A map with constant element size ndf (the point maps: 1 or 3).
PointMap(gids, ndf) == BlockMap(gids, [i \in DOMAIN gids |-> ndf])

NumMyElements(map) == Len(map.MyGlobalElements)

NumMyPoints(map) == SumSeq(map.ElementSizeList)

\* Epetra_BlockMap::LID: the slot of a global ID, -1 when the map has none.
LID(map, gid) ==
  IF \E i \in DOMAIN map.MyGlobalElements : map.MyGlobalElements[i] = gid
  THEN (CHOOSE i \in DOMAIN map.MyGlobalElements :
          /\ map.MyGlobalElements[i] = gid
          /\ \A j \in DOMAIN map.MyGlobalElements :
               map.MyGlobalElements[j] = gid => i <= j) - 1
  ELSE NotPresent

\* Epetra_BlockMap::GID: the global ID of a slot.
GID(map, lid) == map.MyGlobalElements[lid + 1]

MyGID(map, gid) == LID(map, gid) # NotPresent

\* Epetra_BlockMap::ElementSize(LID) for a slot of the map.
ElementSize(map, lid) == map.ElementSizeList[lid + 1]

\* Epetra_BlockMap::FirstPointInElementList()[lid].
FirstPointInElement(map, lid) == SumSeq(SubSeq(map.ElementSizeList, 1, lid))

\* The entries of element lid of a vector laid out on map.
ElementEntries(map, vec, lid) ==
  SubSeq(vec, FirstPointInElement(map, lid) + 1,
              FirstPointInElement(map, lid) + ElementSize(map, lid))

ZeroVector(n) == [i \in 1..n |-> 0]

\* A vector on a point map, given by the value it holds for each global ID.
VectorOf(map, value) ==
  [i \in 1..NumMyElements(map) |-> value[map.MyGlobalElements[i]]]

\* ------------------------------------------------------------- state

VARIABLES
  \* the mothership maps handed to initialize (never rebalanced)
  oneDimensionalMap, threeDimensionalMap,
  \* the contact maps: the current contact decomposition
  oneDimensionalContactMap, threeDimensionalContactMap,
  oneDimensionalOverlapContactMap, bondContactMap,
  \* the importers between the mothership and the contact mothership vectors
  oneDimensionalMothershipToContactMothershipImporter,
  threeDimensionalMothershipToContactMothershipImporter,
  \* the contact mothership multivectors: [blockIDs, volume] and
  \* [y, v, contactForce, scratch]
  oneDimensionalContactMothership, threeDimensionalContactMothership,
  \* the bond and the contact Neighborhood Table
  neighborhoodData, contactNeighborhoodData,
  \* the caller's vectors in the mothership decomposition
  mothership,
  \* the time-stepping driver: the step, and the ranks that have called
  \* rebalance(step)
  step, called,
  \* each rank's position in rebalance and its local variables there
  pc, local,
  \* history: each rank's members as they were when it called rebalance(step)
  atCall,
  \* the ContactManager object as the constructor and initialize leave it: the
  \* arguments, contactRebalanceFrequency, contactSearchRadius, contactBlocks
  construction

members == <<oneDimensionalMap, threeDimensionalMap,
             oneDimensionalContactMap, threeDimensionalContactMap,
             oneDimensionalOverlapContactMap, bondContactMap,
             oneDimensionalMothershipToContactMothershipImporter,
             threeDimensionalMothershipToContactMothershipImporter,
             oneDimensionalContactMothership, threeDimensionalContactMothership,
             neighborhoodData, contactNeighborhoodData>>

vars == <<members, mothership, step, called, pc, local, atCall, construction>>

\* The members of one rank's ContactManager that rebalance publishes.
Published(r) ==
  [oneDimensionalContactMap |-> oneDimensionalContactMap[r],
   threeDimensionalContactMap |-> threeDimensionalContactMap[r],
   oneDimensionalOverlapContactMap |-> oneDimensionalOverlapContactMap[r],
   bondContactMap |-> bondContactMap[r],
   oneDimensionalMothershipToContactMothershipImporter |->
     oneDimensionalMothershipToContactMothershipImporter[r],
   threeDimensionalMothershipToContactMothershipImporter |->
     threeDimensionalMothershipToContactMothershipImporter[r],
   oneDimensionalContactMothership |-> oneDimensionalContactMothership[r],
   threeDimensionalContactMothership |-> threeDimensionalContactMothership[r],
   neighborhoodData |-> neighborhoodData[r],
   contactNeighborhoodData |-> contactNeighborhoodData[r]]

NoLocals == [phase |-> "none"]

NoSnapshot == [taken |-> FALSE]

\* ------------------------------------------- inputs of the initial state

\* The region (block) ID, volume and velocity the discretization gives a point.
\* They differ from point to point and from zero, so that a value that was
\* moved to the wrong point, or not moved, shows.
BlockIdOf(g) == 1 + (g % 2)

VolumeOf(g) == 10 + g

VelocityOf(g) == 20 + g

\* The coordinates a point can have.
Coordinates == {2 * c : c \in 0..MaxCell}

\* The positions of the points: point 1 sits in cell 0.
Positions == {y \in [GIDs -> Coordinates] : y[1] = 0}

\* The bond topologies: the undirected graphs over the points.
Edges == {e \in SUBSET GIDs : Cardinality(e) = 2}

BondedTo(E, g) == {h \in UNION E : {g, h} \in E}

\* The assignments of the points to the ranks, for the discretization and for
\* the partitioner: every point on one rank, point 1 on rank 1 (rank 2 can be
\* left without points, and points 2.. move in both directions).
Assignments == {a \in [GIDs -> Ranks] : a[1] = 1}

OwnedBy(own, r) == SortedSeq({g \in DOMAIN own : own[g] = r})

\* The count-prefixed table of a rank: for every owned point its number of
\* neighbors and their slots in the overlap map.
TableOf(ownedMap, overlapMap, neighbors) ==
  LET n      == NumMyElements(ownedMap)
      seg(i) == LET nb == neighbors[ownedMap.MyGlobalElements[i]]
                IN  <<Len(nb)>> \o [k \in 1..Len(nb) |-> LID(overlapMap, nb[k])]
      segs   == [i \in 1..n |-> seg(i)]
  IN  [NumOwnedPoints       |-> n,
       OwnedIDs             |-> [i \in 1..n |->
                                   LID(overlapMap, ownedMap.MyGlobalElements[i])],
       NeighborhoodPtr      |-> [i \in 1..n |->
                                   Len(Flatten(SubSeq(segs, 1, i - 1)))],
       NeighborhoodListSize |-> Len(Flatten(segs)),
       NeighborhoodList     |-> Flatten(segs)]

\* What the discretization hands to initialize and loadNeighborhoodData for
\* decomposition own and bond graph E.
DiscOwnedMap(own, r, ndf) == PointMap(OwnedBy(own, r), ndf)

DiscBonds(E, g) == SortedSeq(BondedTo(E, g))

DiscOverlapMap(own, E, r) ==
  LET owned == {g \in DOMAIN own : own[g] = r}
      ghost == UNION {BondedTo(E, g) : g \in owned} \ owned
  IN  PointMap(OwnedBy(own, r) \o SortedSeq(ghost), 1)

DiscBondMap(own, E, r) ==
  LET o      == OwnedBy(own, r)
      bonded == SelectIdx(o, [i \in DOMAIN o |-> BondedTo(E, o[i]) # {}])
  IN  BlockMap(bonded, [i \in DOMAIN bonded |-> Cardinality(BondedTo(E, bonded[i]))])

DiscNeighborhoodData(own, E, r) ==
  TableOf(DiscOwnedMap(own, r, 1), DiscOverlapMap(own, E, r),
          [g \in DOMAIN own |-> DiscBonds(E, g)])

\* ------------------------------------------------------ Epetra_Import

\* Epetra_Import(targetMap, sourceMap) of one rank.
Import(targetMap, sourceMap) == [target |-> targetMap, source |-> sourceMap]

\* target.Import(source, importer, Insert) on point maps, for rank r: every
\* element of the target map that some rank holds in its source map gets that
\* rank's value; the others keep the target's value.
ImportInsert(targetVec, importers, sourceVecs, r) ==
  LET tmap == importers[r].target
  IN  [i \in 1..NumMyElements(tmap) |->
         LET g == tmap.MyGlobalElements[i]
         IN  IF \E s \in Ranks : MyGID(importers[s].source, g)
             THEN LET s == CHOOSE s \in Ranks : MyGID(importers[s].source, g)
                  IN  sourceVecs[s][LID(importers[s].source, g) + 1]
             ELSE targetVec[i]]

\* The set of sequences whose i-th entry is drawn from choices[i].
SeqProduct(choices) ==
  {f \in [DOMAIN choices -> UNION Range(choices)] :
     \A i \in DOMAIN choices : f[i] \in choices[i]}

\* ------------------------------------- the constructor and initialize

\* Strings are sequences of characters, so that the comparisons, find_last_of,
\* substr and the stream extractions act on them as the library does.
DefaultUpper == <<"D", "e", "f", "a", "u", "l", "t">>

DefaultLower == <<"d", "e", "f", "a", "u", "l", "t">>

\* The block names that occur in the "Blocks" section: the Default region, a
\* name of the form prefix_integer, a name without '_' and a name whose suffix
\* is not an integer.
BlockNameChoices ==
  {DefaultUpper, <<"b", "_", "1">>, <<"b">>, <<"b", "_", "x">>}

\* The most names in one "Block Names" string, and the most entries in the
\* "Blocks" section.
MaxNames == 2

MaxEntries == 2

\* A parameter that a parameter list does not hold, or a value that was not
\* set; a parameter that is present is the one-element sequence of its value.
Absent == <<>>

\* The space-delimited "Block Names" string that lists names.
RECURSIVE JoinNames(_)
JoinNames(names) ==
  IF names = <<>> THEN <<>>
  ELSE names[1] \o (IF Len(names) > 1 THEN <<" ">> \o JoinNames(Tail(names)) ELSE <<>>)

BlockNamesStrings ==
  {JoinNames(names) : names \in UNION {[1..n -> BlockNameChoices] : n \in 1..MaxNames}}

\* The "Blocks" sections: entry i holds the "Block Names" string blockParams[i].
BlocksSections == UNION {[1..n -> BlockNamesStrings] : n \in 0..MaxEntries}

\* The values "Search Frequency" can have.
Frequencies == (0 - 1)..contactRebalanceFrequency

\* The parameter list of one contact model of the "Models" sublist: its name,
\* and "Horizon" and "Friction Coefficient" where the list has them.
ModelEntry(name, horizon, friction) ==
  [Name |-> name, Horizon |-> horizon, FrictionCoefficient |-> friction]

\* The "Models" sublists, in the order of their entries: none, one model
\* with a "Horizon", and two models of which one has a "Friction
\* Coefficient" and, as the second, a "Horizon" as well.
ModelsChoices ==
  {Absent,
   <<ModelEntry("A", <<9>>, Absent)>>,
   <<ModelEntry("A", Absent, <<3>>), ModelEntry("B", Absent, Absent)>>,
   <<ModelEntry("A", Absent, Absent), ModelEntry("B", <<9>>, <<3>>)>>}

\* The contact parameter lists: "Search Radius", "Search Frequency" and the
\* "Models" sublist.
ContactParamsChoices ==
  [SearchRadius    : {Absent, <<contactSearchRadius>>},
   SearchFrequency : {Absent} \cup {<<frequency>> : frequency \in Frequencies},
   Models          : ModelsChoices]

\* What disc->getBlockNames() can return.
DiscretizationBlockNames ==
  {<<<<"b", "_", "1">>, <<"b", "_", "2">>>>, <<<<"b", "_", "1">>>>,
   <<<<"b", "_", "1">>, <<"b">>>>, <<<<"b", "_", "1">>, <<"b", "_", "x">>>>}

\* The map<string, double> blockHorizonValues handed to initialize: a horizon
\* for some of the keys, all different and none zero.
HorizonKeys == <<DefaultLower, <<"b", "_", "1">>>>

HorizonChoices ==
  {[k \in {HorizonKeys[i] : i \in I} |-> CHOOSE i \in I : HorizonKeys[i] = k] :
     I \in SUBSET DOMAIN HorizonKeys}

\* istream_iterator<string>: the whitespace-delimited tokens of str, after
\* the token cur that is being read.
RECURSIVE Tokens(_, _)
Tokens(str, cur) ==
  LET done == IF cur = <<>> THEN <<>> ELSE <<cur>>
  IN  IF str = <<>> THEN done
      ELSE IF Head(str) = " " THEN done \o Tokens(Tail(str), <<>>)
      ELSE Tokens(Tail(str), Append(cur, Head(str)))

npos == -1

\* str.find_last_of(ch): the last position (from 0) of ch in str, or npos.
find_last_of(str, ch) ==
  IF \E i \in DOMAIN str : str[i] = ch
  THEN (CHOOSE i \in DOMAIN str : str[i] = ch /\ \A j \in DOMAIN str : str[j] = ch => j <= i) - 1
  ELSE npos

\* str.substr(pos, n)
substr(str, pos, n) ==
  SubSeq(str, pos + 1, IF pos + n < Len(str) THEN pos + n ELSE Len(str))

DigitChars == <<"0", "1", "2", "3", "4", "5", "6", "7", "8", "9">>

IsDigit(ch) == \E i \in DOMAIN DigitChars : DigitChars[i] = ch

DigitValue(ch) == (CHOOSE i \in DOMAIN DigitChars : DigitChars[i] = ch) - 1

\* The value of the digits at the front of str, after the value acc.
RECURSIVE LeadingDigits(_, _)
LeadingDigits(str, acc) ==
  IF str # <<>> /\ IsDigit(Head(str))
  THEN LeadingDigits(Tail(str), 10 * acc + DigitValue(Head(str)))
  ELSE acc

\* The values blockID can have after "int blockID; blockIDSS >> blockID;": the
\* number at the front of str; when str does not start with a digit the
\* extraction fails, and blockID is 0 or keeps its uninitialized value.
blockIDAfterExtraction(str) ==
  IF str # <<>> /\ IsDigit(Head(str)) THEN {LeadingDigits(str, 0)} ELSE 0..MaxGarbage

\* The constructor's tests for the required parameters.
missingRequiredParameterNever(contactParams) == FALSE

missingRequiredParameter(contactParams) ==
  contactParams.SearchRadius = Absent \/ contactParams.SearchFrequency = Absent

\* A member after "member = contactParams.get(...)": the parameter's value; a
\* member that nothing was assigned to has the value of the initializer list.
memberAfterGet(parameter, initial) ==
  IF parameter = Absent THEN initial ELSE parameter[1]

\* The test of a block name against the Default region.
isDefaultName(name) == name = DefaultUpper \/ name = DefaultLower

\* The names of the "Blocks" section in the order of the two loops, each with
\* the parameter list of its entry.
listedNames(blockParams) ==
  Flatten([i \in DOMAIN blockParams |->
             LET blockNames == Tokens(blockParams[i], <<>>)
             IN  [k \in DOMAIN blockNames |->
                    [name |-> blockNames[k],
                     params |-> [entry |-> i, BlockNames |-> blockParams[i]]]]])

\* The names of the discretization that no block in have carries, each once.
RECURSIVE unmatchedNames(_, _)
unmatchedNames(names, have) ==
  IF names = <<>> THEN <<>>
  ELSE IF names[1] \in have THEN unmatchedNames(Tail(names), have)
  ELSE <<names[1]>> \o unmatchedNames(Tail(names), have \cup {names[1]})

\* The blocks the constructor creates, in order: one for every listed name
\* that is not the Default region and, when a Default region is listed, one
\* with the parameter list of the last Default entry for every name of the
\* discretization that has no block yet.
blocksToCreate(blockParams, discretizationBlockNames) ==
  LET listed   == listedNames(blockParams)
      explicit == SelectIdx(listed, [i \in DOMAIN listed |-> ~isDefaultName(listed[i].name)])
      defaults == SelectIdx(listed, [i \in DOMAIN listed |-> isDefaultName(listed[i].name)])
      defaultBlocks == defaults # <<>>
      unmatched == unmatchedNames(discretizationBlockNames,
                                  {explicit[i].name : i \in DOMAIN explicit})
  IN  IF defaultBlocks
      THEN explicit \o [i \in DOMAIN unmatched |->
                          [name |-> unmatched[i],
                           params |-> defaults[Len(defaults)].params]]
      ELSE explicit

\* The test that stops the constructor at a block name.
blockNameIsError(name) == find_last_of(name, "_") = npos

\* The object before the constructor has run, with the constructor's
\* arguments; blockHorizonValues is the argument of initialize once it has run.
Unconstructed(contactParams, blockParams, discretizationBlockNames) ==
  [status                    |-> "Unconstructed",
   contactParams             |-> contactParams,
   blockParams               |-> blockParams,
   discretizationBlockNames  |-> discretizationBlockNames,
   contactRebalanceFrequency |-> 0,
   contactSearchRadius       |-> 0,
   contactBlocks             |-> <<>>,
   blocksCreated             |-> 0,
   blockHorizonValues        |-> Absent,
   cadenceTest               |-> "none"]

\* ContactManager::ContactManager: the objects the constructor can leave.  An
\* exception destroys the object; blocksCreated counts the ContactBlocks that
\* were created before.
ContactManagerOutcomes(args) ==
  IF missingRequiredParameter(args.contactParams)
  THEN {[args EXCEPT !.status = "Failed"]}
  ELSE LET todo  == blocksToCreate(args.blockParams, args.discretizationBlockNames)
           bad   == {i \in DOMAIN todo : blockNameIsError(todo[i].name)}
           first == CHOOSE i \in bad : \A j \in bad : i <= j
           ids   == SeqProduct([i \in DOMAIN todo |->
                      LET loc == find_last_of(todo[i].name, "_")
                      IN  blockIDAfterExtraction(
                            substr(todo[i].name, loc + 1, Len(todo[i].name)))])
       IN  IF bad # {}
           THEN {[args EXCEPT !.status = "Failed", !.blocksCreated = first - 1]}
           ELSE {[args EXCEPT
                    !.status = "Constructed",
                    !.contactRebalanceFrequency =
                       memberAfterGet(args.contactParams.SearchFrequency, @),
                    !.contactSearchRadius =
                       memberAfterGet(args.contactParams.SearchRadius, @),
                    !.contactBlocks = [i \in DOMAIN todo |->
                                         [name     |-> todo[i].name,
                                          blockID  |-> id[i],
                                          params   |-> todo[i].params,
                                          contactModel |-> Absent]],
                    !.blocksCreated = Len(todo)] : id \in ids}

\* The horizon initialize resolves for a block that has no entry and no
\* default: the initial value of blockHorizon, without the exception.
blockHorizonSilent(blockName, blockHorizonValues) ==
  IF blockName \in DOMAIN blockHorizonValues THEN <<blockHorizonValues[blockName]>>
  ELSE IF DefaultLower \in DOMAIN blockHorizonValues
  THEN <<blockHorizonValues[DefaultLower]>>
  ELSE <<0>>

\* The horizon initialize resolves for a block, or Absent where it throws.
blockHorizon(blockName, blockHorizonValues) ==
  IF blockName \in DOMAIN blockHorizonValues THEN <<blockHorizonValues[blockName]>>
  ELSE IF DefaultLower \in DOMAIN blockHorizonValues
  THEN <<blockHorizonValues[DefaultLower]>>
  ELSE Absent

\* A choice of the contact model that takes the last entry of "Models".
lastContactModelParams(contactModelParams) ==
  contactModelParams[Len(contactModelParams)]

\* contactModelParams.sublist(contactModelParams.begin()->first): the
\* parameters of the first entry of "Models".
firstContactModelParams(contactModelParams) == contactModelParams[1]

\* The tests that stop initialize at a block: no horizon, no "Models"
\* sublist, or a "Horizon" among the parameters of the contact model.
initializeIsError(blockName, blockHorizonValues, contactParams) ==
  \/ blockHorizon(blockName, blockHorizonValues) = Absent
  \/ contactParams.Models = Absent
  \/ firstContactModelParams(contactParams.Models).Horizon # Absent

\* The parameters the contact model of a block is created from: those of the
\* first entry of "Models", with "Horizon" set to the block's horizon and
\* "Friction Coefficient" set to 0.0 where the entry has none.
contactModelParamsOf(contactModelParams, horizon) ==
  LET contactParams == firstContactModelParams(contactModelParams)
  IN  [Name                |-> contactParams.Name,
       Horizon             |-> horizon,
       FrictionCoefficient |-> IF contactParams.FrictionCoefficient = Absent
                               THEN 0
                               ELSE contactParams.FrictionCoefficient[1]]

\* ContactManager::initialize, the loop over the contact blocks: every block
\* up to the first one that throws gets its contact model.
initializeContactModels(object, blockHorizonValues) ==
  LET blocks == object.contactBlocks
      bad    == {i \in DOMAIN blocks :
                   initializeIsError(blocks[i].name, blockHorizonValues, object.contactParams)}
      stop   == IF bad = {} THEN Len(blocks) + 1
                ELSE CHOOSE i \in bad : \A j \in bad : i <= j
  IN  [object EXCEPT
         !.status = IF bad = {} THEN "Initialized" ELSE "InitializeFailed",
         !.blockHorizonValues = <<blockHorizonValues>>,
         !.contactBlocks = [i \in DOMAIN blocks |->
            IF i < stop
            THEN [blocks[i] EXCEPT !.contactModel =
                    <<contactModelParamsOf(object.contactParams.Models,
                        blockHorizon(blocks[i].name, blockHorizonValues)[1])>>]
            ELSE blocks[i]]]

\* The object the driver of the rebalance cycles works with: constructed from
\* a Default region over the block names of the points, and initialized.
DriverObject ==
  LET args == Unconstructed(
                [SearchRadius |-> <<contactSearchRadius>>,
                 SearchFrequency |-> <<contactRebalanceFrequency>>,
                 Models |-> <<ModelEntry("A", Absent, Absent)>>],
                <<DefaultUpper>>,
                <<<<"b", "_", "1">>, <<"b", "_", "2">>>>)
      constructed == CHOOSE object \in ContactManagerOutcomes(args) : TRUE
  IN  initializeContactModels(constructed, [k \in {DefaultLower} |-> 1])

\* ------------------------------------------------------------- Init

\* The members after the constructor, initialize, loadAllMothershipData,
\* loadNeighborhoodData and initializeContactBlocks, and the caller's vectors.
MembersFrom(own, E, y) ==
  /\ oneDimensionalMap = [r \in Ranks |-> DiscOwnedMap(own, r, 1)]
  /\ threeDimensionalMap = [r \in Ranks |-> DiscOwnedMap(own, r, 3)]
  /\ oneDimensionalContactMap = [r \in Ranks |-> DiscOwnedMap(own, r, 1)]
  /\ threeDimensionalContactMap = [r \in Ranks |-> DiscOwnedMap(own, r, 3)]
  /\ oneDimensionalOverlapContactMap = [r \in Ranks |-> DiscOverlapMap(own, E, r)]
  /\ bondContactMap = [r \in Ranks |-> DiscBondMap(own, E, r)]
  /\ oneDimensionalMothershipToContactMothershipImporter =
       [r \in Ranks |-> Import(DiscOwnedMap(own, r, 1), DiscOwnedMap(own, r, 1))]
  /\ threeDimensionalMothershipToContactMothershipImporter =
       [r \in Ranks |-> Import(DiscOwnedMap(own, r, 3), DiscOwnedMap(own, r, 3))]
  /\ mothership =
       [r \in Ranks |->
          [blockIds     |-> VectorOf(DiscOwnedMap(own, r, 1), [g \in DOMAIN own |-> BlockIdOf(g)]),
           volume       |-> VectorOf(DiscOwnedMap(own, r, 1), [g \in DOMAIN own |-> VolumeOf(g)]),
           y            |-> VectorOf(DiscOwnedMap(own, r, 1), y),
           v            |-> VectorOf(DiscOwnedMap(own, r, 1), [g \in DOMAIN own |-> VelocityOf(g)]),
           contactForce |-> VectorOf(DiscOwnedMap(own, r, 1), [g \in DOMAIN own |-> 0])]]
  /\ oneDimensionalContactMothership =
       [r \in Ranks |->
          [contactBlockIDs |-> VectorOf(DiscOwnedMap(own, r, 1), [g \in DOMAIN own |-> BlockIdOf(g)]),
           contactVolume   |-> VectorOf(DiscOwnedMap(own, r, 1), [g \in DOMAIN own |-> VolumeOf(g)])]]
  /\ threeDimensionalContactMothership =
       [r \in Ranks |->
          [contactY            |-> VectorOf(DiscOwnedMap(own, r, 1), y),
           contactV            |-> VectorOf(DiscOwnedMap(own, r, 1), [g \in DOMAIN own |-> VelocityOf(g)]),
           contactContactForce |-> VectorOf(DiscOwnedMap(own, r, 1), [g \in DOMAIN own |-> 0]),
           contactScratch      |-> VectorOf(DiscOwnedMap(own, r, 1), [g \in DOMAIN own |-> 0])]]
  /\ neighborhoodData = [r \in Ranks |-> DiscNeighborhoodData(own, E, r)]
  /\ contactNeighborhoodData = [r \in Ranks |-> DiscNeighborhoodData(own, E, r)]

\* The state after construction, before the driver's first step.
Init ==
  /\ \E own \in Assignments, E \in SUBSET Edges, y \in Positions :
       MembersFrom(own, E, y)
  /\ step = 1
  /\ called = {}
  /\ pc = [r \in Ranks |-> "Idle"]
  /\ local = [r \in Ranks |-> NoLocals]
  /\ atCall = [r \in Ranks |-> NoSnapshot]
  /\ construction = DriverObject

\* --------------------------------------------------- the partitioner

\* currentConfigurationDecomp up to the call of the partitioner: the decomp
\* object filled from the contact maps and the contact mothership vectors.
currentConfigurationDecomp(r) ==
  LET n == NumMyElements(oneDimensionalContactMap[r])
  IN  [numPoints   |-> n,
       myGlobalIDs |-> oneDimensionalContactMap[r].MyGlobalElements,
       myX         |-> SubSeq(threeDimensionalContactMothership[r].contactY, 1, n),
       cellVolume  |-> SubSeq(oneDimensionalContactMothership[r].contactVolume, 1, n)]

\* The global IDs of all ranks' decomp objects.
DecompGIDs(decomps) == UNION {Range(decomps[r].myGlobalIDs) : r \in Ranks}

\* A decomp field of a point, read on the rank that holds the point.
DecompValue(decomps, field, g) ==
  LET s == CHOOSE s \in Ranks : g \in Range(decomps[s].myGlobalIDs)
      i == CHOOSE i \in DOMAIN decomps[s].myGlobalIDs : decomps[s].myGlobalIDs[i] = g
  IN  decomps[s][field][i]

\* PDNEIGH::getLoadBalancedDiscretization for rank r, when the partitioner
\* assigns point g to rank assign[g]: the points the rank keeps, in their old
\* order, followed by the points it receives, and their coordinates and
\* volumes with them.
getLoadBalancedDiscretization(decomps, assign, r) ==
  LET old      == decomps[r].myGlobalIDs
      kept     == SelectIdx(old, [i \in DOMAIN old |-> assign[old[i]] = r])
      received == SortedSeq({g \in DecompGIDs(decomps) :
                               assign[g] = r /\ g \notin Range(old)})
      ids      == kept \o received
  IN  [numPoints   |-> Len(ids),
       myGlobalIDs |-> ids,
       myX         |-> [i \in DOMAIN ids |-> DecompValue(decomps, "myX", ids[i])],
       cellVolume  |-> [i \in DOMAIN ids |->
                          DecompValue(decomps, "cellVolume", ids[i])]]

\* PdQuickGridDiscretization::getOwnedMap(comm, decomp, ndf).
getOwnedMap(decomp, ndf) == PointMap(decomp.myGlobalIDs, ndf)

\* ------------------------------------------- migration of the bond map

\* What an out-of-range read of an ElementSizeList can yield.
GarbageSizes == 0..MaxGarbage

\* What an entry that was never written from the source can hold.
GarbageIDs == 0..NumPoints

\* The value bondContactMap->ElementSize(lid) yields: the list's entry, and
\* any value when lid is past the end of the list.
ElementSizeRead(map, lid) ==
  IF lid < NumMyElements(map) THEN {ElementSize(map, lid)} ELSE GarbageSizes

\* The bond-map slot createRebalancedBondMap reads the size of, for the point
\* in slot i of the owned map whose slot in the bond map is bondMapLocalID.
BondCountSlot(i, bondMapLocalID) == i

\* createRebalancedBondMap, the loop that fills numberOfBonds: the vectors
\* the loop can leave, one entry per element of the old owned map.
numberOfBondsChoices(ownedMap, bondMap) ==
  SeqProduct([k \in 1..NumMyElements(ownedMap) |->
    LET globalID       == GID(ownedMap, k - 1)
        bondMapLocalID == LID(bondMap, globalID)
    IN  IF bondMapLocalID # NotPresent
        THEN ElementSizeRead(bondMap, BondCountSlot(k - 1, bondMapLocalID))
        ELSE {0}])

\* A bond map with an element for every owned point, of size 0 for a point
\* without bonds.
rebalancedBondMapWithZeros(rebalancedOneDimensionalMap, rebalancedNumberOfBonds) ==
  BlockMap(rebalancedOneDimensionalMap.MyGlobalElements, rebalancedNumberOfBonds)

\* createRebalancedBondMap, the construction of the map from the migrated
\* counts: the owned points with a count > 0, each with its count as size.
rebalancedBondMapOf(rebalancedOneDimensionalMap, rebalancedNumberOfBonds) ==
  LET ids   == rebalancedOneDimensionalMap.MyGlobalElements
      keep  == [i \in DOMAIN ids |-> rebalancedNumberOfBonds[i] > 0]
  IN  BlockMap(SelectIdx(ids, keep), SelectIdx(rebalancedNumberOfBonds, keep))

\* createRebalancedNeighborGlobalIDList, first half: the global IDs of the
\* old table's neighbors, written one after the other into a vector laid out
\* on the old bond map.
neighborGlobalIDsOf(table, overlapMap, bondMap) ==
  LET list == table.NeighborhoodList
      W[i \in 0..table.NumOwnedPoints] ==
        IF i = 0 THEN [index |-> 1, ids |-> <<>>]
        ELSE LET at           == W[i-1].index
                 numNeighbors == list[at]
             IN  [index |-> at + 1 + numNeighbors,
                  ids   |-> W[i-1].ids \o
                            [j \in 1..numNeighbors |-> GID(overlapMap, list[at + j])]]
      written == W[table.NumOwnedPoints].ids
  IN  [k \in 1..NumMyPoints(bondMap) |->
         IF k <= Len(written) THEN written[k] ELSE 0]

\* rebalancedNeighborGlobalIDs->Import(neighborGlobalIDs, importer, Insert) on
\* bond maps, for rank r: element by element, the entries of the source
\* element as far as the target element has room; entries of the target
\* element past the source element's size are never written from the source.
ImportBondEntries(importers, sourceVecs, r) ==
  LET tmap == importers[r].target
      elem(j) ==
        LET g == tmap.MyGlobalElements[j]
            t == tmap.ElementSizeList[j]
        IN  IF \E s \in Ranks : MyGID(importers[s].source, g)
            THEN LET s   == CHOOSE s \in Ranks : MyGID(importers[s].source, g)
                     src == ElementEntries(importers[s].source, sourceVecs[s],
                                           LID(importers[s].source, g))
                 IN  IF t <= Len(src) THEN {SubSeq(src, 1, t)}
                     ELSE {src \o pad : pad \in [1..(t - Len(src)) -> GarbageIDs]}
            ELSE {ZeroVector(t)}
      elems == SeqProduct([j \in 1..NumMyElements(tmap) |-> elem(j)])
  IN  {Flatten(e) : e \in elems}

\* ---------------------------------------------------- contact search

Abs(x) == IF x < 0 THEN 0 - x ELSE x

\* PDNEIGH::NeighborhoodList for rank r: for every point of the rank's decomp,
\* in the decomp's order, the global IDs of the other points within the
\* search radius, in ascending order.
NeighborhoodList(decomps, r) ==
  LET d == decomps[r]
  IN  [owned_gids   |-> d.myGlobalIDs,
       neighborhood |->
         [iPt \in 1..d.numPoints |->
            SortedSeq({h \in DecompGIDs(decomps) \ {d.myGlobalIDs[iPt]} :
                         Abs(DecompValue(decomps, "myX", h) - d.myX[iPt])
                           <= contactSearchRadius})]]

\* A reading that takes the whole migrated ID list for a point that has no
\* entry in the bond map.
bondedNeighborsOfUnchecked(rebalancedBondMap, rebalancedNeighborGlobalIDs, globalID) ==
  LET tempLocalID == LID(rebalancedBondMap, globalID)
  IN  IF tempLocalID # NotPresent
      THEN ElementEntries(rebalancedBondMap, rebalancedNeighborGlobalIDs, tempLocalID)
      ELSE rebalancedNeighborGlobalIDs

\* The global IDs a point is bonded to, read from the migrated bond map and
\* the migrated ID list; none when the point has no entry in the bond map.
bondedNeighborsOf(rebalancedBondMap, rebalancedNeighborGlobalIDs, globalID) ==
  LET tempLocalID == LID(rebalancedBondMap, globalID)
  IN  IF tempLocalID # NotPresent
      THEN ElementEntries(rebalancedBondMap, rebalancedNeighborGlobalIDs, tempLocalID)
      ELSE <<>>

\* A contact search that keeps no neighbor.
retainedNeighborNone(globalNeighborID, bondedNeighbors) == FALSE

\* A test that keeps every neighbor the search found, bonded or not.
retainedNeighborUnfiltered(globalNeighborID, bondedNeighbors) == TRUE

\* A test that compares a neighbor with the first bonded neighbor only.
retainedNeighborFirstBondOnly(globalNeighborID, bondedNeighbors) ==
  bondedNeighbors = <<>> \/ globalNeighborID # bondedNeighbors[1]

\* contactSearch's test for keeping a neighbor the search found.
retainedNeighbor(globalNeighborID, bondedNeighbors) ==
  globalNeighborID \notin Range(bondedNeighbors)

\* contactSearch: contactNeighborGlobalIDs (a std::map from the global ID of
\* every searched point to its retained neighbors) and offProcessorContactIDs.
contactSearch(rebalancedOneDimensionalMap, rebalancedBondMap, rebalancedNeighborGlobalIDs, decomps, r) ==
  LET neighList == NeighborhoodList(decomps, r)
      numPoints == decomps[r].numPoints
      listOf(iPt) ==
        LET bondedNeighbors ==
              bondedNeighborsOf(rebalancedBondMap, rebalancedNeighborGlobalIDs,
                                neighList.owned_gids[iPt])
            found == neighList.neighborhood[iPt]
            keep == [i \in DOMAIN found |-> retainedNeighbor(found[i], bondedNeighbors)]
        IN  SelectIdx(found, keep)
      keys == {neighList.owned_gids[iPt] : iPt \in 1..numPoints}
      lists == [g \in keys |->
                  listOf(CHOOSE iPt \in 1..numPoints : neighList.owned_gids[iPt] = g)]
  IN  [contactNeighborGlobalIDs |-> lists,
       offProcessorContactIDs   |->
         {h \in UNION {Range(lists[g]) : g \in keys} :
            LID(rebalancedOneDimensionalMap, h) = NotPresent}]

\* The IDs of the migrated bond lists, owned or not.
offProcessorBondIDsUnfiltered(rebalancedOneDimensionalMap, rebalancedNeighborGlobalIDs) ==
  Range(rebalancedNeighborGlobalIDs)

\* A list of IDs to ghost that leaves the bonded neighbors out.
offProcessorBondIDsNone(rebalancedOneDimensionalMap, rebalancedNeighborGlobalIDs) == {}

\* rebalance, the IDs of the migrated bond lists that the rank does not own.
offProcessorBondIDs(rebalancedOneDimensionalMap, rebalancedNeighborGlobalIDs) ==
  {globalID \in Range(rebalancedNeighborGlobalIDs) :
     ~MyGID(rebalancedOneDimensionalMap, globalID)}

\* An overlap map that holds the owned IDs only.
rebalancedOverlapMapOwnedOnly(rebalancedOneDimensionalMap, offProcessorIDs, ndf) ==
  PointMap(rebalancedOneDimensionalMap.MyGlobalElements, ndf)

\* rebalance, the construction of the overlap map: the owned IDs followed by
\* the IDs to ghost in ascending order.
rebalancedOverlapMapOf(rebalancedOneDimensionalMap, offProcessorIDs, ndf) ==
  PointMap(rebalancedOneDimensionalMap.MyGlobalElements \o SortedSeq(offProcessorIDs),
           ndf)

\* ------------------------------------------------ Neighborhood Tables

\* A layout whose offsets point to the first neighbor, behind the count.
NeighborhoodDataOfPtrBehindCount(ownedIDs, segs, listSize) ==
  [NumOwnedPoints       |-> Len(segs),
   OwnedIDs             |-> ownedIDs,
   NeighborhoodPtr      |-> [i \in DOMAIN segs |->
                               Len(Flatten(SubSeq(segs, 1, i - 1))) + 1],
   NeighborhoodListSize |-> listSize,
   NeighborhoodList     |-> Flatten(segs)]

\* The layout both tables share: segs[i] is the count-prefixed entry written
\* for the i-th owned point, listSize the size the list was allocated with.
NeighborhoodDataOf(ownedIDs, segs, listSize) ==
  [NumOwnedPoints       |-> Len(segs),
   OwnedIDs             |-> ownedIDs,
   NeighborhoodPtr      |-> [i \in DOMAIN segs |-> Len(Flatten(SubSeq(segs, 1, i - 1)))],
   NeighborhoodListSize |-> listSize,
   NeighborhoodList     |-> Flatten(segs)]

\* The bond table's check of a neighbor's slot: a RangeError when it is -1.
bondSlotIsError(localNeighborID) == localNeighborID = NotPresent

\* createRebalancedNeighborhoodData: the table, or a RangeError.
createRebalancedNeighborhoodData(rebalancedOneDimensionalMap, rebalancedOneDimensionalOverlapMap, rebalancedBondMap, rebalancedNeighborGlobalIDs) ==
  LET n == NumMyElements(rebalancedOneDimensionalMap)
      ownedIDs == [i \in 1..n |->
                     LID(rebalancedOneDimensionalOverlapMap,
                         GID(rebalancedOneDimensionalMap, i - 1))]
      seg(i) ==
        LET globalID == GID(rebalancedOneDimensionalMap, i - 1)
            rebalancedBondMapLocalID == LID(rebalancedBondMap, globalID)
        IN  IF rebalancedBondMapLocalID # NotPresent
            THEN LET ids == ElementEntries(rebalancedBondMap,
                                           rebalancedNeighborGlobalIDs,
                                           rebalancedBondMapLocalID)
                 IN  <<ElementSize(rebalancedBondMap, rebalancedBondMapLocalID)>> \o
                     [k \in DOMAIN ids |->
                        LID(rebalancedOneDimensionalOverlapMap, ids[k])]
            ELSE <<0>>
      segs == [i \in 1..n |-> seg(i)]
  IN  [RangeError |->
         \/ \E i \in 1..n : ownedIDs[i] = NotPresent
         \/ \E i \in 1..n : \E k \in 2..Len(segs[i]) : bondSlotIsError(segs[i][k]),
       data |-> NeighborhoodDataOf(ownedIDs, segs, n + NumMyPoints(rebalancedBondMap))]

\* The contact table's check of a neighbor's slot: there is none.
contactSlotIsError(localNeighborID) == FALSE

\* createRebalancedContactNeighborhoodData: the table, or a RangeError.
createRebalancedContactNeighborhoodData(contactNeighborGlobalIDs, rebalancedOneDimensionalMap, rebalancedOneDimensionalOverlapMap) ==
  LET n == NumMyElements(rebalancedOneDimensionalMap)
      ownedIDs == [i \in 1..n |->
                     LID(rebalancedOneDimensionalOverlapMap,
                         GID(rebalancedOneDimensionalMap, i - 1))]
      keys == DOMAIN contactNeighborGlobalIDs
      neighborhoodListSize ==
        SumSeq([k \in 1..Cardinality(keys) |->
                  Len(contactNeighborGlobalIDs[SortedSeq(keys)[k]]) + 1])
      seg(i) ==
        LET globalID == GID(rebalancedOneDimensionalMap, i - 1)
        IN  IF globalID \in keys
            THEN LET neighborGlobalIDs == contactNeighborGlobalIDs[globalID]
                 IN  <<Len(neighborGlobalIDs)>> \o
                     [k \in DOMAIN neighborGlobalIDs |->
                        LID(rebalancedOneDimensionalOverlapMap, neighborGlobalIDs[k])]
            ELSE <<>>
      segs == [i \in 1..n |-> seg(i)]
  IN  [RangeError |->
         \/ \E i \in 1..n : ownedIDs[i] = NotPresent
         \/ \E i \in 1..n : GID(rebalancedOneDimensionalMap, i - 1) \notin keys
         \/ \E i \in 1..n : \E k \in 2..Len(segs[i]) : contactSlotIsError(segs[i][k]),
       data |-> NeighborhoodDataOf(ownedIDs, segs, neighborhoodListSize)]

\* The slots a table holds for its i-th owned point (i from 1).
TableNeighbors(table, i) ==
  LET at == table.NeighborhoodPtr[i] + 1
  IN  SubSeq(table.NeighborhoodList, at + 1, at + table.NeighborhoodList[at])

\* ------------------------------------------------------- rebalance

AllAt(label) == \A r \in Ranks : pc[r] = label

\* The locals of all ranks, as the collective operations see them.
Decomps == [r \in Ranks |-> local[r].rebalancedDecomp]

\* A cadence test that lets every call through.
notOnCadenceNever(s) == FALSE

\* rebalance's cadence test: whether rebalance(s) returns at once.
notOnCadence(s) == s % contactRebalanceFrequency # 0

\* rebalance(step) called on rank r.  Off the cadence it returns at once; on
\* the cadence it fills the decomp object and enters the partitioner.
RebalanceCall(r) ==
  /\ pc[r] = "Idle"
  /\ r \notin called
  /\ IF notOnCadence(step)
     THEN /\ called' = called \cup {r}
          /\ UNCHANGED <<construction, members, mothership, step, pc, local, atCall>>
     ELSE /\ pc' = [pc EXCEPT ![r] = "Partitioning"]
          /\ local' = [local EXCEPT ![r] =
                         [rebalancedDecomp |-> currentConfigurationDecomp(r)]]
          /\ atCall' = [atCall EXCEPT ![r] = [taken |-> TRUE, members |-> Published(r)]]
          /\ UNCHANGED <<construction, members, mothership, step, called>>

\* The partitioner (collective) returns the new decomposition on every rank,
\* point g on rank assign[g]; each rank builds its rebalanced owned maps and
\* the importers from the old contact maps to them.
PartitionTo(assign) ==
  /\ AllAt("Partitioning")
  /\ local' = [r \in Ranks |->
       LET rebalancedDecomp == getLoadBalancedDiscretization(Decomps, assign, r)
       IN  [rebalancedDecomp              |-> rebalancedDecomp,
            rebalancedOneDimensionalMap   |-> getOwnedMap(rebalancedDecomp, 1),
            oneDimensionalMapImporter     |->
              Import(getOwnedMap(rebalancedDecomp, 1), oneDimensionalContactMap[r]),
            rebalancedThreeDimensionalMap |-> getOwnedMap(rebalancedDecomp, 3),
            threeDimensionalMapImporter   |->
              Import(getOwnedMap(rebalancedDecomp, 3), threeDimensionalContactMap[r])]]
  /\ pc' = [r \in Ranks |-> "GhostDiscovery"]
  /\ UNCHANGED <<construction, members, mothership, step, called, atCall>>

Partition == \E assign \in Assignments : PartitionTo(assign)

\* createRebalancedBondMap on rank r up to the Import of the counts.
RecordBondCounts(r) ==
  /\ pc[r] = "GhostDiscovery"
  /\ \E numberOfBonds \in
          numberOfBondsChoices(oneDimensionalContactMap[r], bondContactMap[r]) :
       local' = [local EXCEPT ![r] = [numberOfBonds |-> numberOfBonds] @@ local[r]]
  /\ pc' = [pc EXCEPT ![r] = "MoveBondCounts"]
  /\ UNCHANGED <<construction, members, mothership, step, called, atCall>>

\* rebalancedNumberOfBonds->Import(numberOfBonds, ..., Insert) (collective).
MoveBondCounts ==
  /\ AllAt("MoveBondCounts")
  /\ local' = [r \in Ranks |->
       [rebalancedNumberOfBonds |->
          ImportInsert(ZeroVector(NumMyElements(local[r].rebalancedOneDimensionalMap)),
                       [s \in Ranks |-> local[s].oneDimensionalMapImporter],
                       [s \in Ranks |-> local[s].numberOfBonds], r)] @@ local[r]]
  /\ pc' = [r \in Ranks |-> "BondMap"]
  /\ UNCHANGED <<construction, members, mothership, step, called, atCall>>

\* The rest of createRebalancedBondMap on rank r, and
\* createRebalancedNeighborGlobalIDList up to its Import.
BuildBondMap(r) ==
  /\ pc[r] = "BondMap"
  /\ local' = [local EXCEPT ![r] =
       [rebalancedBondMap |->
          rebalancedBondMapOf(local[r].rebalancedOneDimensionalMap,
                              local[r].rebalancedNumberOfBonds),
        neighborGlobalIDs |->
          neighborGlobalIDsOf(neighborhoodData[r], oneDimensionalOverlapContactMap[r],
                              bondContactMap[r])] @@ local[r]]
  /\ pc' = [pc EXCEPT ![r] = "MoveBondIDs"]
  /\ UNCHANGED <<construction, members, mothership, step, called, atCall>>

\* An Import of the bond IDs that lets a rank go on as soon as the lists of
\* all ranks are there, while the other ranks are still in their Import.
MoveBondIDsUnsynchronized ==
  \E r \in Ranks :
    /\ pc[r] = "MoveBondIDs"
    /\ \A s \in Ranks : pc[s] \in {"MoveBondIDs", "ContactSearch", "OverlapConstruction"}
    /\ LET bondMapImporter ==
             [s \in Ranks |-> Import(local[s].rebalancedBondMap, bondContactMap[s])]
           sourceVecs == [s \in Ranks |-> local[s].neighborGlobalIDs]
       IN  \E moved \in ImportBondEntries(bondMapImporter, sourceVecs, r) :
             local' = [local EXCEPT ![r] =
                [bondMapImporter             |-> bondMapImporter[r],
                 rebalancedNeighborGlobalIDs |-> moved] @@ local[r]]
    /\ pc' = [pc EXCEPT ![r] = "ContactSearch"]
    /\ UNCHANGED <<construction, members, mothership, step, called, atCall>>

\* The bond map importer and
\* rebalancedNeighborGlobalIDs->Import(neighborGlobalIDs, ..., Insert) (collective).
MoveBondIDs ==
  /\ AllAt("MoveBondIDs")
  /\ LET bondMapImporter ==
           [s \in Ranks |-> Import(local[s].rebalancedBondMap, bondContactMap[s])]
         sourceVecs == [s \in Ranks |-> local[s].neighborGlobalIDs]
     IN  \E moved \in [Ranks -> UNION {ImportBondEntries(bondMapImporter, sourceVecs, s) :
                                         s \in Ranks}] :
           /\ \A r \in Ranks : moved[r] \in ImportBondEntries(bondMapImporter, sourceVecs, r)
           /\ local' = [r \in Ranks |->
                [bondMapImporter             |-> bondMapImporter[r],
                 rebalancedNeighborGlobalIDs |-> moved[r]] @@ local[r]]
  /\ pc' = [r \in Ranks |-> "ContactSearch"]
  /\ UNCHANGED <<construction, members, mothership, step, called, atCall>>

\* rebalance on rank r from the list of off-processor IDs to the end of the
\* contact search.
ContactSearch(r) ==
  /\ pc[r] = "ContactSearch"
  /\ LET found == contactSearch(local[r].rebalancedOneDimensionalMap,
                                local[r].rebalancedBondMap,
                                local[r].rebalancedNeighborGlobalIDs, Decomps, r)
     IN  local' = [local EXCEPT ![r] =
           [contactNeighborGlobalIDs |-> found.contactNeighborGlobalIDs,
            offProcessorIDs          |->
              offProcessorBondIDs(local[r].rebalancedOneDimensionalMap,
                                  local[r].rebalancedNeighborGlobalIDs)
                \cup found.offProcessorContactIDs] @@ local[r]]
  /\ pc' = [pc EXCEPT ![r] = "OverlapConstruction"]
  /\ UNCHANGED <<construction, members, mothership, step, called, atCall>>

\* A fatal error on rank r: the exception leaves rebalance, the locals are
\* destroyed, and the whole run ends.
Fatal ==
  /\ pc' = [r \in Ranks |-> "Aborted"]
  /\ local' = [r \in Ranks |-> NoLocals]

\* rebalance on rank r: the overlap maps, then
\* neighborhoodData = createRebalancedNeighborhoodData(...).
OverlapConstruction(r) ==
  /\ pc[r] = "OverlapConstruction"
  /\ LET overlap1 == rebalancedOverlapMapOf(local[r].rebalancedOneDimensionalMap,
                                            local[r].offProcessorIDs, 1)
         overlap3 == rebalancedOverlapMapOf(local[r].rebalancedOneDimensionalMap,
                                            local[r].offProcessorIDs, 3)
         built == createRebalancedNeighborhoodData(
                    local[r].rebalancedOneDimensionalMap, overlap1,
                    local[r].rebalancedBondMap, local[r].rebalancedNeighborGlobalIDs)
     IN  IF built.RangeError
         THEN /\ Fatal
              /\ UNCHANGED <<construction, members, mothership, step, called, atCall>>
         ELSE /\ neighborhoodData' = [neighborhoodData EXCEPT ![r] = built.data]
              /\ local' = [local EXCEPT ![r] =
                   [rebalancedOneDimensionalOverlapMap   |-> overlap1,
                    rebalancedThreeDimensionalOverlapMap |-> overlap3] @@ local[r]]
              /\ pc' = [pc EXCEPT ![r] = "ContactTable"]
              /\ UNCHANGED <<construction, oneDimensionalMap, threeDimensionalMap,
                             oneDimensionalContactMap, threeDimensionalContactMap,
                             oneDimensionalOverlapContactMap, bondContactMap,
                             oneDimensionalMothershipToContactMothershipImporter,
                             threeDimensionalMothershipToContactMothershipImporter,
                             oneDimensionalContactMothership,
                             threeDimensionalContactMothership,
                             contactNeighborhoodData,
                             mothership, step, called, atCall>>

\* rebalance on rank r:
\* contactNeighborhoodData = createRebalancedContactNeighborhoodData(...).
ContactTable(r) ==
  /\ pc[r] = "ContactTable"
  /\ LET built == createRebalancedContactNeighborhoodData(
                    local[r].contactNeighborGlobalIDs,
                    local[r].rebalancedOneDimensionalMap,
                    local[r].rebalancedOneDimensionalOverlapMap)
     IN  IF built.RangeError
         THEN /\ Fatal
              /\ UNCHANGED <<construction, members, mothership, step, called, atCall>>
         ELSE /\ contactNeighborhoodData' =
                   [contactNeighborhoodData EXCEPT ![r] = built.data]
              /\ pc' = [pc EXCEPT ![r] = "DataMigration"]
              /\ UNCHANGED <<construction, oneDimensionalMap, threeDimensionalMap,
                             oneDimensionalContactMap, threeDimensionalContactMap,
                             oneDimensionalOverlapContactMap, bondContactMap,
                             oneDimensionalMothershipToContactMothershipImporter,
                             threeDimensionalMothershipToContactMothershipImporter,
                             oneDimensionalContactMothership,
                             threeDimensionalContactMothership,
                             neighborhoodData,
                             mothership, step, called, local, atCall>>

\* A column of a rebalanced multivector that is allocated and never filled.
rebalancedColumnUnfilled(targetMapOf, importerOf, sourceVecs, r) ==
  ZeroVector(NumMyElements(targetMapOf[r]))

\* One column of a rebalanced mothership multivector on rank r: a new vector
\* on the rebalanced map, filled by Import(old column, importer, Insert).
rebalancedColumn(targetMapOf, importerOf, sourceVecs, r) ==
  ImportInsert(ZeroVector(NumMyElements(targetMapOf[r])), importerOf, sourceVecs, r)

\* The columns of the three-dimensional contact mothership that rebalance
\* fills by Import from the old multivector.
importedColumns3D == {"contactY", "contactV", "contactContactForce", "contactScratch"}

\* rebalance, "rebalance the mothership (global) contact vectors" (collective).
MigrateData ==
  /\ AllAt("DataMigration")
  /\ LET map1 == [s \in Ranks |-> local[s].rebalancedOneDimensionalMap]
         imp1 == [s \in Ranks |-> local[s].oneDimensionalMapImporter]
         map3 == [s \in Ranks |-> local[s].rebalancedThreeDimensionalMap]
         imp3 == [s \in Ranks |-> local[s].threeDimensionalMapImporter]
         old1(f) == [s \in Ranks |-> oneDimensionalContactMothership[s][f]]
         old3(f) == [s \in Ranks |-> threeDimensionalContactMothership[s][f]]
         col3(f, r) == IF f \in importedColumns3D
                       THEN rebalancedColumn(map3, imp3, old3(f), r)
                       ELSE ZeroVector(NumMyElements(map3[r]))
     IN  /\ oneDimensionalContactMothership' = [r \in Ranks |->
              [contactBlockIDs |-> rebalancedColumn(map1, imp1, old1("contactBlockIDs"), r),
               contactVolume   |-> rebalancedColumn(map1, imp1, old1("contactVolume"), r)]]
         /\ threeDimensionalContactMothership' = [r \in Ranks |->
              [contactY            |-> col3("contactY", r),
               contactV            |-> col3("contactV", r),
               contactContactForce |-> col3("contactContactForce", r),
               contactScratch      |-> col3("contactScratch", r)]]
  /\ pc' = [r \in Ranks |-> "Publish"]
  /\ UNCHANGED <<construction, oneDimensionalMap, threeDimensionalMap,
                 oneDimensionalContactMap, threeDimensionalContactMap,
                 oneDimensionalOverlapContactMap, bondContactMap,
                 oneDimensionalMothershipToContactMothershipImporter,
                 threeDimensionalMothershipToContactMothershipImporter,
                 neighborhoodData, contactNeighborhoodData,
                 mothership, step, called, local, atCall>>

\* An end of rebalance that leaves bondContactMap pointing to the old bond map.
PublishMapsStaleBondMap(r) ==
  /\ pc[r] = "Publish"
  /\ oneDimensionalContactMap' =
       [oneDimensionalContactMap EXCEPT ![r] = local[r].rebalancedOneDimensionalMap]
  /\ oneDimensionalOverlapContactMap' =
       [oneDimensionalOverlapContactMap EXCEPT
          ![r] = local[r].rebalancedOneDimensionalOverlapMap]
  /\ threeDimensionalContactMap' =
       [threeDimensionalContactMap EXCEPT ![r] = local[r].rebalancedThreeDimensionalMap]
  /\ bondContactMap' = bondContactMap
  /\ oneDimensionalMothershipToContactMothershipImporter' =
       [oneDimensionalMothershipToContactMothershipImporter EXCEPT
          ![r] = Import(local[r].rebalancedOneDimensionalMap, oneDimensionalMap[r])]
  /\ threeDimensionalMothershipToContactMothershipImporter' =
       [threeDimensionalMothershipToContactMothershipImporter EXCEPT
          ![r] = Import(local[r].rebalancedThreeDimensionalMap, threeDimensionalMap[r])]
  /\ pc' = [pc EXCEPT ![r] = "Idle"]
  /\ local' = [local EXCEPT ![r] = NoLocals]
  /\ called' = called \cup {r}
  /\ UNCHANGED <<construction, oneDimensionalMap, threeDimensionalMap,
                 oneDimensionalContactMothership, threeDimensionalContactMothership,
                 neighborhoodData, contactNeighborhoodData,
                 mothership, step, atCall>>

\* An end of rebalance that does not reset the importers between the
\* mothership and the contact mothership vectors.
PublishMapsStaleImporters(r) ==
  /\ pc[r] = "Publish"
  /\ oneDimensionalContactMap' =
       [oneDimensionalContactMap EXCEPT ![r] = local[r].rebalancedOneDimensionalMap]
  /\ oneDimensionalOverlapContactMap' =
       [oneDimensionalOverlapContactMap EXCEPT
          ![r] = local[r].rebalancedOneDimensionalOverlapMap]
  /\ threeDimensionalContactMap' =
       [threeDimensionalContactMap EXCEPT ![r] = local[r].rebalancedThreeDimensionalMap]
  /\ bondContactMap' = [bondContactMap EXCEPT ![r] = local[r].rebalancedBondMap]
  /\ pc' = [pc EXCEPT ![r] = "Idle"]
  /\ local' = [local EXCEPT ![r] = NoLocals]
  /\ called' = called \cup {r}
  /\ UNCHANGED <<construction, oneDimensionalMap, threeDimensionalMap,
                 oneDimensionalMothershipToContactMothershipImporter,
                 threeDimensionalMothershipToContactMothershipImporter,
                 oneDimensionalContactMothership, threeDimensionalContactMothership,
                 neighborhoodData, contactNeighborhoodData,
                 mothership, step, atCall>>

\* rebalance on rank r from "rebalance the contact blocks" to its end: the
\* pointers to the maps are set to the rebalanced maps and the importers to
\* the mothership vectors are rebuilt.
PublishMaps(r) ==
  /\ pc[r] = "Publish"
  /\ oneDimensionalContactMap' =
       [oneDimensionalContactMap EXCEPT ![r] = local[r].rebalancedOneDimensionalMap]
  /\ oneDimensionalOverlapContactMap' =
       [oneDimensionalOverlapContactMap EXCEPT
          ![r] = local[r].rebalancedOneDimensionalOverlapMap]
  /\ threeDimensionalContactMap' =
       [threeDimensionalContactMap EXCEPT ![r] = local[r].rebalancedThreeDimensionalMap]
  /\ bondContactMap' = [bondContactMap EXCEPT ![r] = local[r].rebalancedBondMap]
  /\ oneDimensionalMothershipToContactMothershipImporter' =
       [oneDimensionalMothershipToContactMothershipImporter EXCEPT
          ![r] = Import(local[r].rebalancedOneDimensionalMap, oneDimensionalMap[r])]
  /\ threeDimensionalMothershipToContactMothershipImporter' =
       [threeDimensionalMothershipToContactMothershipImporter EXCEPT
          ![r] = Import(local[r].rebalancedThreeDimensionalMap, threeDimensionalMap[r])]
  /\ pc' = [pc EXCEPT ![r] = "Idle"]
  /\ local' = [local EXCEPT ![r] = NoLocals]
  /\ called' = called \cup {r}
  /\ UNCHANGED <<construction, oneDimensionalMap, threeDimensionalMap,
                 oneDimensionalContactMothership, threeDimensionalContactMothership,
                 neighborhoodData, contactNeighborhoodData,
                 mothership, step, atCall>>

\* A call that rank r makes inside rebalance (the partitioner, an Epetra
\* constructor or Import, a ContactBlock method, an allocation) throws.
Abort(r) ==
  /\ pc[r] \notin {"Idle", "Aborted"}
  /\ Fatal
  /\ UNCHANGED <<construction, members, mothership, step, called, atCall>>

\* --------------------------------------------- the time-stepping driver

\* importData(volume, coordinates, velocity) (collective), called before
\* rebalance(step).
ImportData ==
  /\ AllAt("Idle")
  /\ called = {}
  /\ oneDimensionalContactMothership' = [r \in Ranks |->
       [oneDimensionalContactMothership[r] EXCEPT
          !.contactVolume =
             ImportInsert(@, oneDimensionalMothershipToContactMothershipImporter,
                          [s \in Ranks |-> mothership[s].volume], r)]]
  /\ threeDimensionalContactMothership' = [r \in Ranks |->
       [threeDimensionalContactMothership[r] EXCEPT
          !.contactY =
             ImportInsert(@, threeDimensionalMothershipToContactMothershipImporter,
                          [s \in Ranks |-> mothership[s].y], r),
          !.contactV =
             ImportInsert(@, threeDimensionalMothershipToContactMothershipImporter,
                          [s \in Ranks |-> mothership[s].v], r)]]
  /\ UNCHANGED <<construction, oneDimensionalMap, threeDimensionalMap,
                 oneDimensionalContactMap, threeDimensionalContactMap,
                 oneDimensionalOverlapContactMap, bondContactMap,
                 oneDimensionalMothershipToContactMothershipImporter,
                 threeDimensionalMothershipToContactMothershipImporter,
                 neighborhoodData, contactNeighborhoodData,
                 mothership, step, called, pc, local, atCall>>

\* ------------------------------------------------- the contact blocks

\* The IDs of the contact blocks, in the order of the list contactBlocks.
BlockIds == SortedSeq({BlockIdOf(g) : g \in GIDs})

\* The global IDs of the owned+ghost layout of contact block b on rank r: the
\* owned points whose block ID is b and their neighbors in the contact table.
blockOverlapIDs(b, r) ==
  LET map == oneDimensionalContactMap[r]
      ids == oneDimensionalContactMothership[r].contactBlockIDs
      own == {i \in 1..NumMyElements(map) : ids[i] = b}
  IN  {map.MyGlobalElements[i] : i \in own} \cup
      UNION {{GID(oneDimensionalOverlapContactMap[r], slot) :
                slot \in Range(TableNeighbors(contactNeighborhoodData[r], i))} :
             i \in own}

\* ContactBlock::exportData(contactScratch, ..., Add) into a zeroed scratch
\* vector of rank r, when the block holds force density f for every point of
\* its layout: each owned point gets the sum over the ranks whose layout of
\* block b holds it.
blockExport(b, f, r) ==
  VectorOf(oneDimensionalContactMap[r],
           [g \in GIDs |-> f * Cardinality({s \in Ranks : g \in blockOverlapIDs(b, s)})])

\* contactContactForce after the loop over the blocks: the running sum
\* Update(1.0, contactScratch, 1.0) of the blocks' exports, from startVec.
RECURSIVE accumulatedForce(_, _, _, _)
accumulatedForce(blocks, f, r, startVec) ==
  IF blocks = <<>> THEN startVec
  ELSE LET scratch == blockExport(blocks[1], f, r)
       IN  accumulatedForce(Tail(blocks), f, r,
                            [i \in DOMAIN startVec |-> startVec[i] + scratch[i]])

\* A sum that starts from what the last call left in contactContactForce.
exportStartKept(contactContactForce) == contactContactForce

\* The vector exportData starts the sum from: contactContactForce->PutScalar(0.0).
exportStart(contactContactForce) == ZeroVector(Len(contactContactForce))

\* target.Export(source, importer, Insert) for rank r: the reverse of the
\* importer, from the importers' target maps to their source maps.
ExportInsert(targetVec, importers, sourceVecs, r) ==
  LET smap == importers[r].source
  IN  [i \in 1..NumMyElements(smap) |->
         LET g == smap.MyGlobalElements[i]
         IN  IF \E s \in Ranks : MyGID(importers[s].target, g)
             THEN LET s == CHOOSE s \in Ranks : MyGID(importers[s].target, g)
                  IN  sourceVecs[s][LID(importers[s].target, g) + 1]
             ELSE targetVec[i]]

\* exportData(contactForce) (collective), called after rebalance(step) when
\* the blocks hold force density f.
ExportData ==
  /\ AllAt("Idle")
  /\ called = Ranks
  /\ \E f \in 1..MaxForce :
       LET force == [r \in Ranks |->
                       accumulatedForce(BlockIds, f, r,
                         exportStart(threeDimensionalContactMothership[r].contactContactForce))]
           scratch == [r \in Ranks |-> blockExport(BlockIds[Len(BlockIds)], f, r)]
       IN  /\ threeDimensionalContactMothership' = [r \in Ranks |->
                [threeDimensionalContactMothership[r] EXCEPT
                   !.contactContactForce = force[r],
                   !.contactScratch = scratch[r]]]
           /\ mothership' = [r \in Ranks |->
                [mothership[r] EXCEPT
                   !.contactForce =
                      ExportInsert(@, threeDimensionalMothershipToContactMothershipImporter,
                                   force, r)]]
  /\ UNCHANGED <<construction, oneDimensionalMap, threeDimensionalMap,
                 oneDimensionalContactMap, threeDimensionalContactMap,
                 oneDimensionalOverlapContactMap, bondContactMap,
                 oneDimensionalMothershipToContactMothershipImporter,
                 threeDimensionalMothershipToContactMothershipImporter,
                 oneDimensionalContactMothership,
                 neighborhoodData, contactNeighborhoodData,
                 step, called, pc, local, atCall>>

\* The driver moves on to the next step once every rank has returned from
\* rebalance(step).
NextStep ==
  /\ AllAt("Idle")
  /\ called = Ranks
  /\ step < MaxStep
  /\ step' = step + 1
  /\ called' = {}
  /\ atCall' = [r \in Ranks |-> NoSnapshot]
  /\ UNCHANGED <<construction, members, mothership, pc, local>>

Next ==
  \/ \E r \in Ranks : RebalanceCall(r)
  \/ Partition
  \/ \E r \in Ranks : RecordBondCounts(r)
  \/ MoveBondCounts
  \/ \E r \in Ranks : BuildBondMap(r)
  \/ MoveBondIDs
  \/ \E r \in Ranks : ContactSearch(r)
  \/ \E r \in Ranks : OverlapConstruction(r)
  \/ \E r \in Ranks : ContactTable(r)
  \/ MigrateData
  \/ \E r \in Ranks : PublishMaps(r)
  \/ \E r \in Ranks : Abort(r)
  \/ ImportData
  \/ ExportData
  \/ NextStep

Spec == Init /\ [][Next]_vars

\* --------------------------------- the table builders on arbitrary inputs

\* The locals the two table builders read on rank r, for owned points own,
\* bond graph E, lists of contact neighbors taken from graph C, and the set
\* ghosts of IDs to ghost (it need not hold every neighbor).
TableInputs(own, E, C, ghosts, r) ==
  LET owned == OwnedBy(own, r)
  IN  [rebalancedOneDimensionalMap |-> DiscOwnedMap(own, r, 1),
       rebalancedBondMap           |-> DiscBondMap(own, E, r),
       rebalancedNeighborGlobalIDs |->
         Flatten([i \in DOMAIN owned |-> DiscBonds(E, owned[i])]),
       contactNeighborGlobalIDs    |->
         [g \in Range(owned) |-> SortedSeq(BondedTo(C, g))],
       offProcessorIDs             |-> ghosts \ Range(owned)]

\* Every rank is about to build its tables from inputs of the bounded sets.
TableInit ==
  /\ \E own \in Assignments, E \in SUBSET Edges, C \in SUBSET Edges,
        ghosts \in SUBSET GIDs :
       /\ MembersFrom(own, E, [g \in GIDs |-> 0])
       /\ local = [r \in Ranks |-> TableInputs(own, E, C, ghosts, r)]
  /\ step = contactRebalanceFrequency
  /\ called = {}
  /\ pc = [r \in Ranks |-> "OverlapConstruction"]
  /\ atCall = [r \in Ranks |-> [taken |-> TRUE, members |-> Published(r)]]
  /\ construction = DriverObject

TableNext ==
  \/ \E r \in Ranks : OverlapConstruction(r)
  \/ \E r \in Ranks : ContactTable(r)

TableSpec == TableInit /\ [][TableNext]_vars

\* ------------------------------- construction and initialization

\* A Teuchos::RCP that has not been assigned.
Null == "null"

\* step % contactRebalanceFrequency in rebalance, for a step that is not
\* negative: undefined when the divisor is zero.
cadenceTestOf(s, frequency) ==
  IF frequency = 0 THEN "undefined"
  ELSE IF s % Abs(frequency) # 0 THEN "returns" ELSE "runs"

\* The constructor is about to run on arguments of the bounded sets; the
\* members that initialize and loadNeighborhoodData assign are null.
ConfigInit ==
  /\ \E contactParams \in ContactParamsChoices, blockParams \in BlocksSections,
        discretizationBlockNames \in DiscretizationBlockNames :
       construction = Unconstructed(contactParams, blockParams, discretizationBlockNames)
  /\ oneDimensionalMap = [r \in Ranks |-> Null]
  /\ threeDimensionalMap = [r \in Ranks |-> Null]
  /\ oneDimensionalContactMap = [r \in Ranks |-> Null]
  /\ threeDimensionalContactMap = [r \in Ranks |-> Null]
  /\ oneDimensionalOverlapContactMap = [r \in Ranks |-> Null]
  /\ bondContactMap = [r \in Ranks |-> Null]
  /\ oneDimensionalMothershipToContactMothershipImporter = [r \in Ranks |-> Null]
  /\ threeDimensionalMothershipToContactMothershipImporter = [r \in Ranks |-> Null]
  /\ oneDimensionalContactMothership = [r \in Ranks |-> Null]
  /\ threeDimensionalContactMothership = [r \in Ranks |-> Null]
  /\ neighborhoodData = [r \in Ranks |-> Null]
  /\ contactNeighborhoodData = [r \in Ranks |-> Null]
  /\ mothership = [r \in Ranks |-> Null]
  /\ step = 1
  /\ called = {}
  /\ pc = [r \in Ranks |-> "Idle"]
  /\ local = [r \in Ranks |-> NoLocals]
  /\ atCall = [r \in Ranks |-> NoSnapshot]

\* ContactManager::ContactManager
Construct ==
  /\ construction.status = "Unconstructed"
  /\ \E object \in ContactManagerOutcomes(construction) : construction' = object
  /\ UNCHANGED <<members, mothership, step, called, pc, local, atCall>>

\* ContactManager::initialize after the loop over the contact blocks: the
\* maps handed in are copied, the importers and the multivectors are created.
initializeMembers(own, E) ==
  /\ oneDimensionalMap' = [r \in Ranks |-> DiscOwnedMap(own, r, 1)]
  /\ threeDimensionalMap' = [r \in Ranks |-> DiscOwnedMap(own, r, 3)]
  /\ oneDimensionalContactMap' = [r \in Ranks |-> DiscOwnedMap(own, r, 1)]
  /\ threeDimensionalContactMap' = [r \in Ranks |-> DiscOwnedMap(own, r, 3)]
  /\ oneDimensionalOverlapContactMap' = [r \in Ranks |-> DiscOverlapMap(own, E, r)]
  /\ bondContactMap' = [r \in Ranks |-> DiscBondMap(own, E, r)]
  /\ oneDimensionalMothershipToContactMothershipImporter' =
       [r \in Ranks |-> Import(DiscOwnedMap(own, r, 1), DiscOwnedMap(own, r, 1))]
  /\ threeDimensionalMothershipToContactMothershipImporter' =
       [r \in Ranks |-> Import(DiscOwnedMap(own, r, 3), DiscOwnedMap(own, r, 3))]
  /\ oneDimensionalContactMothership' =
       [r \in Ranks |->
          [contactBlockIDs |-> ZeroVector(NumMyElements(DiscOwnedMap(own, r, 1))),
           contactVolume   |-> ZeroVector(NumMyElements(DiscOwnedMap(own, r, 1)))]]
  /\ threeDimensionalContactMothership' =
       [r \in Ranks |->
          [contactY            |-> ZeroVector(NumMyElements(DiscOwnedMap(own, r, 1))),
           contactV            |-> ZeroVector(NumMyElements(DiscOwnedMap(own, r, 1))),
           contactContactForce |-> ZeroVector(NumMyElements(DiscOwnedMap(own, r, 1))),
           contactScratch      |-> ZeroVector(NumMyElements(DiscOwnedMap(own, r, 1)))]]
  /\ UNCHANGED <<neighborhoodData, contactNeighborhoodData>>

\* ContactManager::initialize on the maps of a discretization and a map of
\* horizon values; an exception in the loop leaves the members unassigned.
Initialize ==
  /\ construction.status = "Constructed"
  /\ \E blockHorizonValues \in HorizonChoices, own \in Assignments :
       LET object == initializeContactModels(construction, blockHorizonValues)
       IN  /\ construction' = object
           /\ IF object.status = "Initialized"
              THEN initializeMembers(own, Edges)
              ELSE UNCHANGED members
  /\ UNCHANGED <<mothership, step, called, pc, local, atCall>>

\* rebalance(s) on the initialized object, up to its cadence test.
CadenceTest ==
  /\ construction.status = "Initialized"
  /\ \E s \in 1..MaxStep :
       construction' = [construction EXCEPT
          !.cadenceTest = cadenceTestOf(s, construction.contactRebalanceFrequency)]
  /\ UNCHANGED <<members, mothership, step, called, pc, local, atCall>>

ConfigNext ==
  \/ Construct
  \/ Initialize
  \/ CadenceTest

ConfigSpec == ConfigInit /\ [][ConfigNext]_vars

\* ------------------------- one cycle on four points with two bonds

\* Points 1..4 with the bonds 1-2 and 3-4.
ScenarioPoints == 1..4

ScenarioBonds == {{1, 2}, {3, 4}}

\* The decompositions of the four points over the ranks, for the
\* discretization and for the partitioner.
ScenarioAssignments == [ScenarioPoints -> Ranks]

\* The positions that put points 2 and 3 within the search radius of each
\* other.
ScenarioPositions ==
  {y \in [ScenarioPoints -> Coordinates] : Abs(y[2] - y[3]) <= contactSearchRadius}

\* Every rank is about to call rebalance with a step on the cadence.
ScenarioInit ==
  /\ \E own \in ScenarioAssignments, y \in ScenarioPositions :
       MembersFrom(own, ScenarioBonds, y)
  /\ step = contactRebalanceFrequency
  /\ called = {}
  /\ pc = [r \in Ranks |-> "Idle"]
  /\ local = [r \in Ranks |-> NoLocals]
  /\ atCall = [r \in Ranks |-> NoSnapshot]
  /\ construction = DriverObject

ScenarioPartition == \E assign \in ScenarioAssignments : PartitionTo(assign)

ScenarioNext ==
  \/ \E r \in Ranks : RebalanceCall(r)
  \/ ScenarioPartition
  \/ \E r \in Ranks : RecordBondCounts(r)
  \/ MoveBondCounts
  \/ \E r \in Ranks : BuildBondMap(r)
  \/ MoveBondIDs
  \/ \E r \in Ranks : ContactSearch(r)
  \/ \E r \in Ranks : OverlapConstruction(r)
  \/ \E r \in Ranks : ContactTable(r)
  \/ MigrateData
  \/ \E r \in Ranks : PublishMaps(r)

ScenarioSpec == ScenarioInit /\ [][ScenarioNext]_vars

\* ------------------------------------- one cycle that every rank runs

\* Every rank is about to call rebalance with a step on the cadence.
CycleInit ==
  /\ \E own \in Assignments, E \in SUBSET Edges, y \in Positions :
       MembersFrom(own, E, y)
  /\ step = contactRebalanceFrequency
  /\ called = {}
  /\ pc = [r \in Ranks |-> "Idle"]
  /\ local = [r \in Ranks |-> NoLocals]
  /\ atCall = [r \in Ranks |-> NoSnapshot]
  /\ construction = DriverObject

\* The steps rank r takes on its own, and the collective steps.
RankStep(r) ==
  \/ RebalanceCall(r)
  \/ RecordBondCounts(r)
  \/ BuildBondMap(r)
  \/ ContactSearch(r)
  \/ OverlapConstruction(r)
  \/ ContactTable(r)
  \/ PublishMaps(r)

CollectiveStep ==
  \/ Partition
  \/ MoveBondCounts
  \/ MoveBondIDs
  \/ MigrateData

CycleNext ==
  \/ \E r \in Ranks : RankStep(r)
  \/ CollectiveStep

\* Some rank has not returned from rebalance(step) and the run has not been
\* aborted: the states in which CycleNext is enabled.
CycleCanStep == \E r \in Ranks : pc[r] # "Aborted" /\ ~(pc[r] = "Idle" /\ r \in called)

\* Every rank runs its thread of control and takes part in every collective,
\* so a cycle that can take a step takes one: WF_vars(CycleNext), written
\* with the state predicate CycleCanStep for ENABLED <<CycleNext>>_vars.
CycleFairness == []<>(~CycleCanStep) \/ []<><<CycleNext>>_vars

CycleSpec == CycleInit /\ [][CycleNext]_vars /\ CycleFairness

\* ------------------------- importData with the vectors of the current step

\* The vectors the caller hands to importData at step s, in the mothership
\* decomposition: volume and velocity carry the step, the positions are
\* mirrored from one call to the next.
CallerVectors(s, r) ==
  [volume |-> [i \in DOMAIN mothership[r].volume |->
                 VolumeOf(GID(oneDimensionalMap[r], i - 1)) + s],
   y      |-> [i \in DOMAIN mothership[r].y |-> 2 * MaxCell - mothership[r].y[i]],
   v      |-> [i \in DOMAIN mothership[r].v |->
                 VelocityOf(GID(oneDimensionalMap[r], i - 1)) + s]]

\* importData(volume, coordinates, velocity) (collective), called with the
\* caller's vectors of the current step once every rank has returned from
\* rebalance(step).
ImportStepData ==
  /\ AllAt("Idle")
  /\ called = Ranks
  /\ mothership[1].v[1] # VelocityOf(1) + step
  /\ LET caller == [s \in Ranks |-> CallerVectors(step, s)]
     IN  /\ mothership' = [r \in Ranks |->
                [mothership[r] EXCEPT !.volume = caller[r].volume,
                                      !.y = caller[r].y,
                                      !.v = caller[r].v]]
         /\ oneDimensionalContactMothership' = [r \in Ranks |->
              [oneDimensionalContactMothership[r] EXCEPT
                 !.contactVolume =
                    ImportInsert(@, oneDimensionalMothershipToContactMothershipImporter,
                                 [s \in Ranks |-> caller[s].volume], r)]]
         /\ threeDimensionalContactMothership' = [r \in Ranks |->
              [threeDimensionalContactMothership[r] EXCEPT
                 !.contactY =
                    ImportInsert(@, threeDimensionalMothershipToContactMothershipImporter,
                                 [s \in Ranks |-> caller[s].y], r),
                 !.contactV =
                    ImportInsert(@, threeDimensionalMothershipToContactMothershipImporter,
                                 [s \in Ranks |-> caller[s].v], r)]]
  /\ UNCHANGED <<construction, oneDimensionalMap, threeDimensionalMap,
                 oneDimensionalContactMap, threeDimensionalContactMap,
                 oneDimensionalOverlapContactMap, bondContactMap,
                 oneDimensionalMothershipToContactMothershipImporter,
                 threeDimensionalMothershipToContactMothershipImporter,
                 neighborhoodData, contactNeighborhoodData,
                 step, called, pc, local, atCall>>

ImportNext ==
  \/ \E r \in Ranks : RankStep(r)
  \/ CollectiveStep
  \/ ImportStepData
  \/ NextStep

ImportSpec == Init /\ [][ImportNext]_vars

\* ------------------------------------------------ the checked properties

\* Every rank has returned from a call rebalance(step) that ran the cycle.
CycleCompleted ==
  /\ AllAt("Idle")
  /\ called = Ranks
  /\ \A r \in Ranks : atCall[r].taken

\* The global IDs a table lists for point g of ownedMap, read through
\* overlapMap.
ListedIDs(ownedMap, overlapMap, table, g) ==
  LET slots == TableNeighbors(table, LID(ownedMap, g) + 1)
  IN  [k \in DOMAIN slots |-> GID(overlapMap, slots[k])]

\* The points rank s owned when it called rebalance, and their bond lists.
OwnedAtCall(s) == Range(atCall[s].members.oneDimensionalContactMap.MyGlobalElements)

OldBondIDs(s, g) ==
  ListedIDs(atCall[s].members.oneDimensionalContactMap,
            atCall[s].members.oneDimensionalOverlapContactMap,
            atCall[s].members.neighborhoodData, g)

\* The points rank r owns now, and their bond and contact lists.
OwnedNow(r) == Range(oneDimensionalContactMap[r].MyGlobalElements)

NewBondIDs(r, g) ==
  ListedIDs(oneDimensionalContactMap[r], oneDimensionalOverlapContactMap[r],
            neighborhoodData[r], g)

NewContactIDs(r, g) ==
  ListedIDs(oneDimensionalContactMap[r], oneDimensionalOverlapContactMap[r],
            contactNeighborhoodData[r], g)

\* The neighbor slots a table holds.
TableSlots(table) ==
  UNION {Range(TableNeighbors(table, i)) : i \in 1..table.NumOwnedPoints}

\* The value a contact mothership column holds for point g on the rank that
\* owns g, now and when the ranks called rebalance.
ValueNow(multivector, column, g) ==
  LET r == CHOOSE r \in Ranks : g \in OwnedNow(r)
  IN  multivector[r][column][LID(oneDimensionalContactMap[r], g) + 1]

ValueAtCall(multivector, column, g) ==
  LET s == CHOOSE s \in Ranks : g \in OwnedAtCall(s)
  IN  atCall[s].members[multivector][column]
        [LID(atCall[s].members.oneDimensionalContactMap, g) + 1]

\* C1: bond conservation.  After a completed cycle, for every point A owned
\* before the cycle and every B in A's bond list before the cycle, the rank
\* that owns A now lists B in A's bond list.
BondConservation ==
  CycleCompleted =>
    \A s \in Ranks : \A A \in OwnedAtCall(s) : \A B \in Range(OldBondIDs(s, A)) :
      \E r \in Ranks : A \in OwnedNow(r) /\ B \in Range(NewBondIDs(r, A))

\* C2: rebalance never creates or destroys a bond.  After a completed cycle
\* the set of IDs in every point's bond list equals the set before the cycle.
BondSetUnchanged ==
  CycleCompleted =>
    \A s \in Ranks : \A P \in OwnedAtCall(s) : \A r \in Ranks :
      P \in OwnedNow(r) => Range(NewBondIDs(r, P)) = Range(OldBondIDs(s, P))

\* C3: contact/bond exclusivity.  After a completed cycle no owned point has
\* a global ID both in its contact list and in its bond list.
ContactBondExclusivity ==
  CycleCompleted =>
    \A r \in Ranks : \A P \in OwnedNow(r) :
      Range(NewContactIDs(r, P)) \cap Range(NewBondIDs(r, P)) = {}

\* A cycle completed in which a point with a bonded neighbor inside the
\* search radius also has contact neighbors.
ContactBondExclusivityWitness ==
  /\ CycleCompleted
  /\ \E r \in Ranks : \E P \in OwnedNow(r) :
       /\ NewContactIDs(r, P) # <<>>
       /\ \E N \in Range(NewBondIDs(r, P)) :
            Abs(ValueNow(threeDimensionalContactMothership, "contactY", N)
                - ValueNow(threeDimensionalContactMothership, "contactY", P))
              <= contactSearchRadius

\* C4: ghost completeness.  After a completed cycle every neighbor slot of
\* the bond table and of the contact table of a rank is a slot of the rank's
\* overlap map: at least 0 and below the map's number of elements.
GhostCompleteness ==
  CycleCompleted =>
    \A r \in Ranks :
      \A slot \in TableSlots(neighborhoodData[r])
                    \cup TableSlots(contactNeighborhoodData[r]) :
        0 <= slot /\ slot < NumMyElements(oneDimensionalOverlapContactMap[r])

\* A cycle completed after which one rank's bond table and contact table
\* both refer to ghost slots.
GhostCompletenessWitness ==
  /\ CycleCompleted
  /\ \E r \in Ranks :
       /\ \E slot \in TableSlots(neighborhoodData[r]) :
            slot >= NumMyElements(oneDimensionalContactMap[r])
       /\ \E slot \in TableSlots(contactNeighborhoodData[r]) :
            slot >= NumMyElements(oneDimensionalContactMap[r])

\* An overlap map that starts with the entries of the owned map, holds no
\* global ID twice, and whose further entries are not owned.
WellFormedOverlap(ownedMap, overlapMap) ==
  LET n   == NumMyElements(ownedMap)
      ids == overlapMap.MyGlobalElements
  IN  /\ Len(ids) >= n
      /\ SubSeq(ids, 1, n) = ownedMap.MyGlobalElements
      /\ \A i, j \in DOMAIN ids : ids[i] = ids[j] => i = j
      /\ \A k \in (n + 1)..Len(ids) : ~MyGID(ownedMap, ids[k])

\* C5: no duplicate ghosting.  Every overlap map rebalance builds, while it
\* is a local of the cycle and once it is published, holds the owned IDs
\* followed by IDs the rank does not own, and no ID twice.
NoDuplicateGhosting ==
  \A r \in Ranks :
    /\ pc[r] \in {"ContactTable", "DataMigration", "Publish"} =>
         /\ WellFormedOverlap(local[r].rebalancedOneDimensionalMap,
                              local[r].rebalancedOneDimensionalOverlapMap)
         /\ WellFormedOverlap(local[r].rebalancedThreeDimensionalMap,
                              local[r].rebalancedThreeDimensionalOverlapMap)
    /\ CycleCompleted =>
         WellFormedOverlap(oneDimensionalContactMap[r],
                           oneDimensionalOverlapContactMap[r])

\* A rank has built an overlap map with ghosts while one of its points is
\* bonded to a point the rank owns.
NoDuplicateGhostingWitness ==
  \E r \in Ranks :
    /\ pc[r] = "ContactTable"
    /\ NumMyElements(local[r].rebalancedOneDimensionalOverlapMap)
         > NumMyElements(local[r].rebalancedOneDimensionalMap)
    /\ \E g \in Range(local[r].rebalancedNeighborGlobalIDs) :
         MyGID(local[r].rebalancedOneDimensionalMap, g)

\* C6: no-op cadence.  A call rebalance(step) of rank r with
\* step mod cadence # 0 leaves every map, importer, mothership vector and
\* table of the rank as it was, and the rank enters no collective operation.
NoOpCadence ==
  [][\A r \in Ranks :
       ( /\ pc[r] = "Idle"
         /\ r \notin called
         /\ r \in called' \/ pc'[r] # "Idle"
         /\ step % contactRebalanceFrequency # 0 )
       => /\ Published(r)' = Published(r)
          /\ oneDimensionalMap'[r] = oneDimensionalMap[r]
          /\ threeDimensionalMap'[r] = threeDimensionalMap[r]
          /\ pc'[r] = "Idle"
          /\ local'[r] = local[r]]_vars

\* Every rank has returned from rebalance(step) off the cadence, in a
\* decomposition that a cycle has published.
NoOpCadenceWitness ==
  /\ step % contactRebalanceFrequency # 0
  /\ step > contactRebalanceFrequency
  /\ called = Ranks
  /\ AllAt("Idle")

\* C7: atomic publication.  When the cycle has aborted, every published
\* structure of every rank equals its value before the call.
AtomicPublication ==
  \A r \in Ranks :
    (pc[r] = "Aborted" /\ atCall[r].taken) => Published(r) = atCall[r].members

MigrationPreservesFields ==
  CycleCompleted =>
    \A s \in Ranks : \A g \in OwnedAtCall(s) :
      /\ Cardinality({r \in Ranks : g \in OwnedNow(r)}) = 1
      /\ \A column \in {"contactBlockIDs", "contactVolume"} :
           ValueNow(oneDimensionalContactMothership, column, g)
             = ValueAtCall("oneDimensionalContactMothership", column, g)
      /\ \A column \in {"contactY", "contactV"} :
           ValueNow(threeDimensionalContactMothership, column, g)
             = ValueAtCall("threeDimensionalContactMothership", column, g)

\* A cycle completed in which a point changed its owner.
MigrationPreservesFieldsWitness ==
  /\ CycleCompleted
  /\ \E s \in Ranks : \E g \in OwnedAtCall(s) : g \notin OwnedNow(s)

\* C10: the force and scratch buffers are zero after a completed cycle.
\* When the last rank returns from a rebalance that ran the cycle, every
\* entry of contactContactForce and of contactScratch is zero on every rank.
ForceBuffersZeroed ==
  [][( (\E r \in Ranks : pc[r] = "Publish") /\ (\A r \in Ranks : pc'[r] = "Idle") )
       => \A r \in Ranks :
            /\ \A i \in DOMAIN threeDimensionalContactMothership'[r].contactContactForce :
                 threeDimensionalContactMothership'[r].contactContactForce[i] = 0
            /\ \A i \in DOMAIN threeDimensionalContactMothership'[r].contactScratch :
                 threeDimensionalContactMothership'[r].contactScratch[i] = 0]_vars

\* A block name of the form <prefix>_<integer>.
WellFormedBlockName(name) ==
  \E k \in DOMAIN name :
    /\ name[k] = "_"
    /\ k < Len(name)
    /\ \A j \in (k + 1)..Len(name) : IsDigit(name[j])

\* The integer that a well-formed block name ends with.
SuffixOf(name) ==
  LET k == CHOOSE k \in DOMAIN name :
             name[k] = "_" /\ \A j \in (k + 1)..Len(name) : name[j] # "_"
  IN  LeadingDigits(SubSeq(name, k + 1, Len(name)), 0)

\* The names that the "Blocks" section lists, other than the Default region,
\* and the entries that list the Default region.
ExplicitlyListed(object) ==
  {e.name : e \in {x \in Range(listedNames(object.blockParams)) : ~isDefaultName(x.name)}}

DefaultEntries(object) ==
  {e.params : e \in {x \in Range(listedNames(object.blockParams)) : isDefaultName(x.name)}}

\* C14: once the constructor has run on contact parameters that lack
\* "Search Radius" or "Search Frequency", it has failed, there is no
\* ContactManager and no contact block was created.
MissingParameterIsFatal ==
  (/\ construction.status # "Unconstructed"
   /\ \/ construction.contactParams.SearchRadius = Absent
      \/ construction.contactParams.SearchFrequency = Absent)
  => /\ construction.status = "Failed"
     /\ construction.contactBlocks = <<>>
     /\ construction.blocksCreated = 0

\* The constructor has failed on a "Blocks" section with well-formed names
\* because "Search Frequency" alone is missing.
MissingParameterIsFatalWitness ==
  /\ construction.status = "Failed"
  /\ construction.contactParams.SearchRadius # Absent
  /\ construction.contactParams.SearchFrequency = Absent
  /\ construction.blockParams # <<>>
  /\ \A e \in Range(listedNames(construction.blockParams)) : WellFormedBlockName(e.name)

\* C15: whenever rebalance can be called the cadence is a positive integer,
\* and no cadence test divides by a cadence that is not positive.
CadenceIsPositive ==
  /\ construction.status \in {"Constructed", "Initialized"}
       => construction.contactRebalanceFrequency > 0
  /\ construction.cadenceTest # "undefined"

\* C16: after initialize every block that has a contact model has the horizon
\* supplied for its own name, or else the one supplied for the default, and
\* never the horizon 0; initialize fails when a block has neither.
HorizonResolution ==
  construction.status \in {"Initialized", "InitializeFailed"} =>
    LET supplied == construction.blockHorizonValues[1]
        blocks   == construction.contactBlocks
        hasOwn(i) == blocks[i].name \in DOMAIN supplied
        hasDefault == DefaultLower \in DOMAIN supplied
    IN  /\ \A i \in DOMAIN blocks :
             blocks[i].contactModel # Absent =>
               /\ hasOwn(i) \/ hasDefault
               /\ blocks[i].contactModel[1].Horizon =
                    IF hasOwn(i) THEN supplied[blocks[i].name] ELSE supplied[DefaultLower]
               /\ blocks[i].contactModel[1].Horizon # 0
        /\ (\E i \in DOMAIN blocks : ~hasOwn(i) /\ ~hasDefault)
             => construction.status = "InitializeFailed"
        /\ construction.status = "Initialized"
             => \A i \in DOMAIN blocks : blocks[i].contactModel # Absent

\* initialize has given one block the horizon of its own name and another
\* block the default horizon.
HorizonResolutionWitness ==
  /\ construction.status = "Initialized"
  /\ LET supplied == construction.blockHorizonValues[1]
         blocks   == construction.contactBlocks
     IN  /\ \E i \in DOMAIN blocks : blocks[i].name \in DOMAIN supplied
         /\ \E i \in DOMAIN blocks : blocks[i].name \notin DOMAIN supplied

\* C17: a constructed ContactManager has only blocks whose names are of the
\* form <prefix>_<integer> and whose block IDs are the integers of the names.
MalformedNameIsFatal ==
  construction.status \in {"Constructed", "Initialized", "InitializeFailed"} =>
    \A i \in DOMAIN construction.contactBlocks :
      LET block == construction.contactBlocks[i]
      IN  /\ WellFormedBlockName(block.name)
          /\ block.blockID = SuffixOf(block.name)

\* C18: after construction with a Default entry every block name of the
\* discretization has exactly one block, a listed name has the parameter list
\* of an entry that lists it and any other name that of a Default entry;
\* without a Default entry only listed names have blocks.
DefaultRegion ==
  construction.status = "Constructed" =>
    LET blocks   == construction.contactBlocks
        listed   == listedNames(construction.blockParams)
        explicit == ExplicitlyListed(construction)
        defaults == DefaultEntries(construction)
    IN  /\ defaults # {} =>
             \A n \in Range(construction.discretizationBlockNames) :
               Cardinality({i \in DOMAIN blocks : blocks[i].name = n}) = 1
        /\ \A i \in DOMAIN blocks :
             IF blocks[i].name \in explicit
             THEN \E e \in Range(listed) :
                    e.name = blocks[i].name /\ e.params = blocks[i].params
             ELSE blocks[i].params \in defaults
        /\ defaults = {} => \A i \in DOMAIN blocks : blocks[i].name \in explicit

\* The number of contributions that the contact blocks hold for point g: one
\* for every block and rank whose owned+ghost layout of the block holds g.
Contributions(g) ==
  SumSeq([k \in DOMAIN BlockIds |->
            Cardinality({s \in Ranks : g \in blockOverlapIDs(BlockIds[k], s)})])

\* C11: exportData delivers to every point that the caller owns the sum, over
\* all contact blocks, of the contributions held for the point, whatever an
\* earlier call has left in the buffers.
ExportSumsBlocks ==
  [][(AllAt("Idle") /\ called = Ranks /\ step' = step) =>
       \E f \in 1..MaxForce :
         \A r \in Ranks : \A i \in 1..NumMyElements(oneDimensionalMap[r]) :
           mothership'[r].contactForce[i] =
             f * Contributions(oneDimensionalMap[r].MyGlobalElements[i])]_vars

\* exportData has delivered a sum of two or more contributions to a point
\* that the contact decomposition keeps on another rank than its caller.
ExportSumsBlocksWitness ==
  /\ AllAt("Idle")
  /\ \E r \in Ranks : \E i \in 1..NumMyElements(oneDimensionalMap[r]) :
       /\ ~MyGID(oneDimensionalContactMap[r], oneDimensionalMap[r].MyGlobalElements[i])
       /\ mothership[r].contactForce[i] >= 2

\* The structures p of one rank describe one decomposition: the bond table
\* has one entry per element of the owned map, its slots are slots of the
\* overlap map, the bond map holds the owned points that have bonds with
\* their numbers of bonds as element sizes, and the three-dimensional map and
\* the mothership vectors are laid out on the owned map.
OneDecomposition(p) ==
  LET owned == p.oneDimensionalContactMap
      n     == NumMyElements(owned)
      table == p.neighborhoodData
      slots == 0..(NumMyElements(p.oneDimensionalOverlapContactMap) - 1)
  IN  /\ table.NumOwnedPoints = n
      /\ Len(table.OwnedIDs) = n
      /\ \A i \in 1..n :
           /\ table.OwnedIDs[i] = LID(p.oneDimensionalOverlapContactMap,
                                      owned.MyGlobalElements[i])
           /\ table.OwnedIDs[i] \in slots
           /\ Range(TableNeighbors(table, i)) \subseteq slots
           /\ Len(TableNeighbors(table, i)) =
                IF MyGID(p.bondContactMap, owned.MyGlobalElements[i])
                THEN ElementSize(p.bondContactMap,
                                 LID(p.bondContactMap, owned.MyGlobalElements[i]))
                ELSE 0
      /\ Range(p.bondContactMap.MyGlobalElements) \subseteq Range(owned.MyGlobalElements)
      /\ p.threeDimensionalContactMap.MyGlobalElements = owned.MyGlobalElements
      /\ \A f \in DOMAIN p.oneDimensionalContactMothership :
           Len(p.oneDimensionalContactMothership[f]) = n
      /\ \A f \in DOMAIN p.threeDimensionalContactMothership :
           Len(p.threeDimensionalContactMothership[f]) = n

\* The maps and tables among the published members of rank r.
PublishedStructures(r) ==
  <<oneDimensionalContactMap[r], threeDimensionalContactMap[r],
    oneDimensionalOverlapContactMap[r], bondContactMap[r],
    neighborhoodData[r], contactNeighborhoodData[r]>>

\* C12: a rank that is outside a cycle or starts one holds structures of one
\* and the same decomposition, a starting cycle reads exactly the published
\* structures, nothing changes them between the end of a cycle and the start
\* of the next, and a cycle starts only on a rank that has left the last one.
CycleChaining ==
  /\ [](\A r \in Ranks :
          /\ pc[r] \in {"Idle", "Partitioning"} => OneDecomposition(Published(r))
          /\ pc[r] = "Partitioning" => atCall[r].members = Published(r))
  /\ [][\A r \in Ranks :
          /\ (pc[r] = "Idle" /\ pc'[r] \in {"Idle", "Partitioning"})
               => PublishedStructures(r)' = PublishedStructures(r)
          /\ (pc'[r] = "Partitioning" /\ pc[r] # "Partitioning")
               => (pc[r] = "Idle" /\ local[r] = NoLocals)]_vars

\* The second cycle starts on a rank whose contact decomposition the first
\* cycle has changed and that has bonds.
CycleChainingWitness ==
  \E r \in Ranks :
    /\ pc[r] = "Partitioning"
    /\ step > contactRebalanceFrequency
    /\ oneDimensionalContactMap[r] # oneDimensionalMap[r]
    /\ NumMyElements(bondContactMap[r]) > 0

\* The rank that owns point g now.
OwnerNow(g) == CHOOSE r \in Ranks : g \in OwnedNow(r)

\* C13: after a completed cycle on points 1..4 with bonds 1-2 and 3-4, when
\* points 2 and 3 are within the search radius and on different ranks: each
\* is in the contact list of the other, the bond lists of all four points
\* are unchanged, and each is a ghost in the overlap map of the other's rank.
ScenarioOutcome ==
  (CycleCompleted /\ OwnerNow(2) # OwnerNow(3)) =>
    /\ 3 \in Range(NewContactIDs(OwnerNow(2), 2))
    /\ 2 \in Range(NewContactIDs(OwnerNow(3), 3))
    /\ \A g \in ScenarioPoints :
         NewBondIDs(OwnerNow(g), g) = SortedSeq(BondedTo(ScenarioBonds, g))
    /\ MyGID(oneDimensionalOverlapContactMap[OwnerNow(2)], 3)
    /\ MyGID(oneDimensionalOverlapContactMap[OwnerNow(3)], 2)

\* The cycle has completed with points 2 and 3 on different ranks, after
\* both were on one rank before it.
ScenarioOutcomeWitness ==
  /\ CycleCompleted
  /\ OwnerNow(2) # OwnerNow(3)
  /\ \E s \in Ranks : {2, 3} \subseteq OwnedAtCall(s)

\* The bond table of rank r's rebalanced decomposition built against the
\* overlap map of the owned IDs and the bonded-neighbor ghost IDs alone.
BondOnlyTable(r) ==
  LET owned == local[r].rebalancedOneDimensionalMap
      ids   == local[r].rebalancedNeighborGlobalIDs
  IN  createRebalancedNeighborhoodData(
        owned, rebalancedOverlapMapOf(owned, offProcessorBondIDs(owned, ids), 1),
        local[r].rebalancedBondMap, ids)

\* C19: once the contact search of a cycle has run on a rank, the rank holds
\* the bond table that was built and validated before the search, against
\* the overlap map of owned IDs plus bonded-neighbor ghost IDs.
BondTableBeforeContactSearch ==
  \A r \in Ranks :
    pc[r] = "OverlapConstruction" =>
      \/ BondOnlyTable(r).RangeError
      \/ neighborhoodData[r] = BondOnlyTable(r).data

\* Rank r has begun the contact search of the cycle of this step.
BegunContactSearch(r) ==
  \/ pc[r] \in {"OverlapConstruction", "ContactTable", "DataMigration", "Publish"}
  \/ pc[r] = "Idle" /\ r \in called

\* Rank s has completed the migrations of the bond counts and the bond IDs.
CompletedGhostDiscovery(s) ==
  \/ pc[s] = "ContactSearch"
  \/ BegunContactSearch(s)

\* C20: no rank has begun the contact search of a cycle while a rank has not
\* completed the migrations of the bond counts and bond IDs of that cycle,
\* and a cycle that a rank has entered ends on that rank.
CrossRankOrdering ==
  /\ [](\A r, s \in Ranks : BegunContactSearch(r) => CompletedGhostDiscovery(s))
  /\ \A r \in Ranks : (pc[r] = "Partitioning") ~> (pc[r] \in {"Idle", "Aborted"})

\* One rank has finished its contact search while the other has not begun.
CrossRankOrderingWitness ==
  \E r, s \in Ranks : pc[r] = "OverlapConstruction" /\ pc[s] = "ContactSearch"

\* The number of bonds point g has in bond map bondMap: the size of its
\* element, 0 when the map has no element for g.
BondsInMap(bondMap, g) ==
  IF MyGID(bondMap, g) THEN ElementSize(bondMap, LID(bondMap, g)) ELSE 0

\* C21: bond-count recording.  When a rank has filled numberOfBonds and not
\* yet entered the collective move, the count written for every point of the
\* old owned map is the number of bonds the point has in the old bond map,
\* and 0 for a point without an entry there.
BondCountRecording ==
  \A r \in Ranks :
    pc[r] = "MoveBondCounts" =>
      \A i \in 1..NumMyElements(oneDimensionalContactMap[r]) :
        local[r].numberOfBonds[i]
          = BondsInMap(bondContactMap[r], GID(oneDimensionalContactMap[r], i - 1))

\* The locals rebalancedNumberOfBonds and rebalancedBondMap of rank r exist.
HasBondMap(r) ==
  pc[r] \in {"MoveBondIDs", "ContactSearch", "OverlapConstruction",
             "ContactTable", "DataMigration", "Publish"}

\* C22: the new bond map.  The rebalanced bond map of a rank holds exactly
\* the points of the rank's new owned map whose migrated count is > 0, in the
\* order of the owned map, each with its migrated count as element size; it
\* holds no element of size 0 and no point the rank does not own.
NewBondMap ==
  \A r \in Ranks :
    HasBondMap(r) =>
      LET ownedMap == local[r].rebalancedOneDimensionalMap
          counts   == local[r].rebalancedNumberOfBonds
          bondMap  == local[r].rebalancedBondMap
          ids      == bondMap.MyGlobalElements
      IN  /\ Len(bondMap.ElementSizeList) = Len(ids)
          /\ \A j \in DOMAIN ids :
               /\ MyGID(ownedMap, ids[j])
               /\ bondMap.ElementSizeList[j] > 0
               /\ bondMap.ElementSizeList[j] = counts[LID(ownedMap, ids[j]) + 1]
          /\ \A i \in 1..NumMyElements(ownedMap) :
               counts[i] > 0 => MyGID(bondMap, ownedMap.MyGlobalElements[i])
          /\ \A j, k \in DOMAIN ids :
               j < k => LID(ownedMap, ids[j]) < LID(ownedMap, ids[k])

\* A rank has built its bond map from counts in which a point without bonds
\* precedes a point with bonds that the rank has received from another rank.
NewBondMapWitness ==
  \E r \in Ranks :
    /\ pc[r] = "MoveBondIDs"
    /\ \E i, k \in 1..NumMyElements(local[r].rebalancedOneDimensionalMap) :
         /\ i < k
         /\ local[r].rebalancedNumberOfBonds[i] = 0
         /\ local[r].rebalancedNumberOfBonds[k] > 0
         /\ ~MyGID(oneDimensionalContactMap[r],
                   local[r].rebalancedOneDimensionalMap.MyGlobalElements[k])

\* The IDs the range query of the cycle returns for point g of rank r.
RangeQuery(r, g) ==
  LET neighList == NeighborhoodList(Decomps, r)
  IN  neighList.neighborhood[CHOOSE iPt \in DOMAIN neighList.owned_gids :
                               neighList.owned_gids[iPt] = g]

\* Every rank is inside the cycle and holds its rebalanced decomp.
AllInCycle == \A s \in Ranks : pc[s] \notin {"Idle", "Aborted", "Partitioning"}

\* The points of rank r's new owned map without an entry in its new bond map.
ZeroBondPoints(r) ==
  {g \in Range(local[r].rebalancedOneDimensionalMap.MyGlobalElements) :
     ~MyGID(local[r].rebalancedBondMap, g)}

\* The count the bond table of rank r holds for point g of ownedMap.
BondTableCount(r, ownedMap, g) ==
  neighborhoodData[r].NeighborhoodList
    [neighborhoodData[r].NeighborhoodPtr[LID(ownedMap, g) + 1] + 1]

\* C23: zero-bond points.  For an owned point without an entry in the
\* rebalanced bond map the contact search retains every ID of the point's
\* range-query result, the rebuilt bond table holds the count 0, and whatever
\* set of IDs is ghosted, a RangeError of the bond table's builder is due to
\* a neighbor of a point that has an entry.
ZeroBondPointsAreNoError ==
  \A r \in Ranks :
    LET ownedMap == local[r].rebalancedOneDimensionalMap
        bondMap  == local[r].rebalancedBondMap
        ids      == local[r].rebalancedNeighborGlobalIDs
    IN  /\ (AllInCycle /\ pc[r] \in {"OverlapConstruction", "ContactTable",
                                     "DataMigration", "Publish"}) =>
             \A g \in ZeroBondPoints(r) :
               local[r].contactNeighborGlobalIDs[g] = RangeQuery(r, g)
        /\ pc[r] \in {"ContactTable", "DataMigration", "Publish"} =>
             \A g \in ZeroBondPoints(r) : BondTableCount(r, ownedMap, g) = 0
        /\ pc[r] = "OverlapConstruction" =>
             \A ghosts \in SUBSET GIDs :
               LET overlapMap == rebalancedOverlapMapOf(ownedMap,
                                   ghosts \ Range(ownedMap.MyGlobalElements), 1)
               IN  createRebalancedNeighborhoodData(ownedMap, overlapMap,
                                                    bondMap, ids).RangeError
                   => \E g \in Range(bondMap.MyGlobalElements) :
                        \E h \in Range(bondedNeighborsOf(bondMap, ids, g)) :
                          ~MyGID(overlapMap, h)

\* A rank has built its bond table for a point without bonds whose range
\* query returned a point that is bonded to another point of the rank.
ZeroBondPointsAreNoErrorWitness ==
  \E r \in Ranks :
    /\ AllInCycle
    /\ pc[r] = "ContactTable"
    /\ \E g \in ZeroBondPoints(r) :
         Range(RangeQuery(r, g)) \cap Range(local[r].rebalancedNeighborGlobalIDs) # {}

\* The migrated bonded set of point P on rank r.
MigratedBondedSet(r, P) ==
  Range(bondedNeighborsOf(local[r].rebalancedBondMap,
                          local[r].rebalancedNeighborGlobalIDs, P))

\* The range-query result of point P with the IDs of P's migrated bonded set
\* taken out and the order of the others kept.
QueryWithoutBonded(r, P) ==
  SelectSeq(RangeQuery(r, P), LAMBDA h : h \notin MigratedBondedSet(r, P))

\* C24: contact list content and determinism.  For every point P of a rank's
\* new owned map, P's contact list is the range-query result for P without
\* the IDs of P's migrated bonded set, in the query's order, and the contact
\* table is the count-prefixed table of these lists over the new overlap map:
\* both are functions of the decomposition, the migrated bond lists and the
\* range-query results.
ContactListContent ==
  \A r \in Ranks :
    /\ (AllInCycle /\ pc[r] \in {"OverlapConstruction", "ContactTable",
                                 "DataMigration", "Publish"}) =>
         /\ DOMAIN local[r].contactNeighborGlobalIDs
              = Range(local[r].rebalancedOneDimensionalMap.MyGlobalElements)
         /\ \A P \in Range(local[r].rebalancedOneDimensionalMap.MyGlobalElements) :
              local[r].contactNeighborGlobalIDs[P] = QueryWithoutBonded(r, P)
    /\ (AllInCycle /\ pc[r] \in {"DataMigration", "Publish"}) =>
         contactNeighborhoodData[r]
           = TableOf(local[r].rebalancedOneDimensionalMap,
                     local[r].rebalancedOneDimensionalOverlapMap,
                     [P \in GIDs |->
                        IF MyGID(local[r].rebalancedOneDimensionalMap, P)
                        THEN QueryWithoutBonded(r, P) ELSE <<>>])

\* A rank has built its contact table for a point whose range query returned
\* two bonded neighbors, and for a point whose range query returned a bonded
\* and a retained ID.
ContactListContentWitness ==
  \E r \in Ranks :
    /\ AllInCycle
    /\ pc[r] = "DataMigration"
    /\ \E P \in Range(local[r].rebalancedOneDimensionalMap.MyGlobalElements) :
         Cardinality(Range(RangeQuery(r, P)) \cap MigratedBondedSet(r, P)) = 2
    /\ \E P \in Range(local[r].rebalancedOneDimensionalMap.MyGlobalElements) :
         /\ Range(RangeQuery(r, P)) \cap MigratedBondedSet(r, P) # {}
         /\ QueryWithoutBonded(r, P) # <<>>

\* The entries of an overlap map that follow the entries of the owned map.
GhostEntries(ownedMap, overlapMap) ==
  {overlapMap.MyGlobalElements[k] :
     k \in (NumMyElements(ownedMap) + 1)..NumMyElements(overlapMap)}

\* The IDs rank r does not own that are a migrated bonded neighbor or a
\* retained contact neighbor of a point of its new owned map.
NeededGhosts(r) ==
  LET owned == Range(local[r].rebalancedOneDimensionalMap.MyGlobalElements)
  IN  UNION {MigratedBondedSet(r, P) \cup Range(local[r].contactNeighborGlobalIDs[P]) :
             P \in owned} \ owned

\* C25: the ghost set is exact.  The set of IDs to ghost that a rank has
\* collected, the ghost entries of the two overlap maps it builds from it, and
\* the ghost entries of the overlap map it has published, are exactly the IDs
\* the rank does not own that are a migrated bonded neighbor or a retained
\* contact neighbor of an owned point.
GhostSetExact ==
  \A r \in Ranks :
    /\ pc[r] = "OverlapConstruction" => local[r].offProcessorIDs = NeededGhosts(r)
    /\ pc[r] \in {"ContactTable", "DataMigration", "Publish"} =>
         /\ GhostEntries(local[r].rebalancedOneDimensionalMap,
                         local[r].rebalancedOneDimensionalOverlapMap) = NeededGhosts(r)
         /\ GhostEntries(local[r].rebalancedThreeDimensionalMap,
                         local[r].rebalancedThreeDimensionalOverlapMap) = NeededGhosts(r)
    /\ CycleCompleted =>
         GhostEntries(oneDimensionalContactMap[r], oneDimensionalOverlapContactMap[r])
           = UNION {Range(NewBondIDs(r, P)) \cup Range(NewContactIDs(r, P)) :
                    P \in OwnedNow(r)} \ OwnedNow(r)

\* One rank has built overlap maps with a ghost that is a bonded neighbor
\* only and a ghost that is a contact neighbor only, and a rank has built
\* them for a point with a neighbor that the rank owns.
GhostSetExactWitness ==
  /\ \E r \in Ranks :
       /\ pc[r] = "ContactTable"
       /\ \E g, h \in NeededGhosts(r) :
            /\ g \in Range(local[r].rebalancedNeighborGlobalIDs)
            /\ \A P \in DOMAIN local[r].contactNeighborGlobalIDs :
                 g \notin Range(local[r].contactNeighborGlobalIDs[P])
            /\ h \notin Range(local[r].rebalancedNeighborGlobalIDs)
  /\ \E s \in Ranks :
       /\ pc[s] = "ContactTable"
       /\ \E P \in Range(local[s].rebalancedOneDimensionalMap.MyGlobalElements) :
            \E g \in MigratedBondedSet(s, P) \cup Range(local[s].contactNeighborGlobalIDs[P]) :
              MyGID(local[s].rebalancedOneDimensionalMap, g)

\* A table of owned map ownedMap: the integers written fill the allocated
\* list, and the list is one count-prefixed entry after the other, the i-th
\* offset being the index of the i-th count.
WellLaidOut(table, ownedMap) ==
  LET n    == NumMyElements(ownedMap)
      list == table.NeighborhoodList
      ptr  == table.NeighborhoodPtr
  IN  /\ Len(list) = table.NeighborhoodListSize
      /\ table.NumOwnedPoints = n
      /\ Len(ptr) = n
      /\ Len(table.OwnedIDs) = n
      /\ Len(list) >= n
      /\ \A i \in 1..n :
           /\ ptr[i] = (IF i = 1 THEN 0 ELSE ptr[i - 1] + 1 + list[ptr[i - 1] + 1])
           /\ ptr[i] < Len(list)
           /\ list[ptr[i] + 1] >= 0
      /\ n = 0 => list = <<>>
      /\ n > 0 => ptr[n] + 1 + list[ptr[n] + 1] = Len(list)

\* C26: table layout.  After a completed cycle the bond table and the
\* contact table of every rank hold one count-prefixed entry for every owned
\* point, in the order of the owned map and with the count 0 for a point
\* without neighbors; the offset of the i-th owned point is the index of its
\* count; and the integers written are as many as the list was allocated for.
TableLayout ==
  \A r \in Ranks :
    /\ CycleCompleted =>
         /\ WellLaidOut(neighborhoodData[r], oneDimensionalContactMap[r])
         /\ WellLaidOut(contactNeighborhoodData[r], oneDimensionalContactMap[r])
         /\ \A i \in 1..NumMyElements(oneDimensionalContactMap[r]) :
              /\ neighborhoodData[r].OwnedIDs[i] = i - 1
              /\ contactNeighborhoodData[r].OwnedIDs[i] = i - 1
              /\ BondTableCount(r, oneDimensionalContactMap[r],
                                GID(oneDimensionalContactMap[r], i - 1))
                   = BondsInMap(bondContactMap[r], GID(oneDimensionalContactMap[r], i - 1))
    /\ pc[r] = "Publish" =>
         /\ WellLaidOut(contactNeighborhoodData[r], local[r].rebalancedOneDimensionalMap)
         /\ \A i \in 1..NumMyElements(local[r].rebalancedOneDimensionalMap) :
              contactNeighborhoodData[r].NeighborhoodList
                [contactNeighborhoodData[r].NeighborhoodPtr[i] + 1]
                = Len(local[r].contactNeighborGlobalIDs
                        [GID(local[r].rebalancedOneDimensionalMap, i - 1)])

\* A cycle completed after which a rank owns a point with neighbors in both
\* tables behind a point without any neighbor.
TableLayoutWitness ==
  /\ CycleCompleted
  /\ \E r \in Ranks : \E i, k \in 1..NumMyElements(oneDimensionalContactMap[r]) :
       /\ i < k
       /\ TableNeighbors(neighborhoodData[r], i) = <<>>
       /\ TableNeighbors(contactNeighborhoodData[r], i) = <<>>
       /\ TableNeighbors(neighborhoodData[r], k) # <<>>
       /\ TableNeighbors(contactNeighborhoodData[r], k) # <<>>

\* The contact model initialize creates for a block from the first entry of
\* "Models" and the horizon supplied for the block's name, or else for the
\* default.
ExpectedContactModel(object, block) ==
  LET supplied == object.blockHorizonValues[1]
      first    == object.contactParams.Models[1]
  IN  [Name                |-> first.Name,
       Horizon             |-> IF block.name \in DOMAIN supplied
                               THEN supplied[block.name] ELSE supplied[DefaultLower],
       FrictionCoefficient |-> IF first.FrictionCoefficient = Absent
                               THEN 0 ELSE first.FrictionCoefficient[1]]

\* Every block that has a contact model has the one made from the first
\* entry of "Models"; after an initialize that succeeded every block has one.
ModelsFromFirstEntry ==
  construction.status \in {"Initialized", "InitializeFailed"} =>
    /\ \A i \in DOMAIN construction.contactBlocks :
         LET block == construction.contactBlocks[i]
         IN  block.contactModel # Absent =>
               /\ construction.contactParams.Models # Absent
               /\ block.contactModel = <<ExpectedContactModel(construction, block)>>
    /\ construction.status = "Initialized" =>
         \A i \in DOMAIN construction.contactBlocks :
           construction.contactBlocks[i].contactModel # Absent

\* The first entry of "Models" carries a "Horizon".
FirstModelHasHorizon ==
  /\ construction.contactParams.Models # Absent
  /\ construction.contactParams.Models[1].Horizon # Absent

CallerValue(field, g) ==
  LET s == CHOOSE s \in Ranks : MyGID(oneDimensionalMap[s], g)
  IN  mothership[s][field][LID(oneDimensionalMap[s], g) + 1]

\* The value a contact buffer of rank r holds for point g of the rank's
\* contact owned map.
BufferValue(multivector, column, r, g) ==
  multivector[r][column][LID(oneDimensionalContactMap[r], g) + 1]

\* C28: import after rebalance.  The importers between the mothership and
\* the contact mothership vectors always have the published contact owned
\* maps as target and the mothership maps as source, the mothership maps
\* never change, and a call of importData leaves, for every point a rank owns
\* in the contact decomposition, the caller's volume, position and velocity
\* of the point in the rank's contact buffers.
ImportAfterRebalance ==
  /\ [](\A r \in Ranks :
          /\ oneDimensionalMothershipToContactMothershipImporter[r]
               = Import(oneDimensionalContactMap[r], oneDimensionalMap[r])
          /\ threeDimensionalMothershipToContactMothershipImporter[r]
               = Import(threeDimensionalContactMap[r], threeDimensionalMap[r]))
  /\ [][/\ oneDimensionalMap' = oneDimensionalMap
        /\ threeDimensionalMap' = threeDimensionalMap
        /\ mothership' # mothership =>
             \A r \in Ranks : \A g \in OwnedNow(r) :
               /\ BufferValue(oneDimensionalContactMothership, "contactVolume", r, g)'
                    = CallerValue("volume", g)'
               /\ BufferValue(threeDimensionalContactMothership, "contactY", r, g)'
                    = CallerValue("y", g)'
               /\ BufferValue(threeDimensionalContactMothership, "contactV", r, g)'
                    = CallerValue("v", g)']_vars

\* importData has been called after the second cycle, in a contact
\* decomposition in which each rank owns a point that the other rank owns in
\* the mothership decomposition.
ImportAfterRebalanceWitness ==
  /\ step = 2 * contactRebalanceFrequency
  /\ AllAt("Idle")
  /\ called = Ranks
  /\ mothership[1].v[1] = VelocityOf(1) + step
  /\ \A r \in Ranks : \E g \in OwnedNow(r) : ~MyGID(oneDimensionalMap[r], g)

====
